---- MODULE Spec2Model ----
(***************************************************************************)
(* The content script of the agentexport browser extension                 *)
(* (src/extension/content.js) as a state machine: the module-level state   *)
(* of the script, the session-storage caches, an abstraction of the        *)
(* externally owned document, and the asynchronous init runs.              *)
(*                                                                         *)
(* One action is one run-to-completion segment of JavaScript: an event     *)
(* handler together with the microtasks it leaves behind, up to the next   *)
(* await of a network request.                                             *)
(***************************************************************************)
EXTENDS Integers, Sequences, FiniteSets, TLC

\* ------------------------------------------------------------------ bounds
MaxInits == 2      \* init invocations (script load + navigation events)
MaxDomInits == 3   \* the same, where only the document side is explored
MaxRaf == 3        \* frame callbacks pending at one time

\* ------------------------------------------------------------------ values
Convs == {"X", "Y"}                  \* conversation identities (owner/repo#id)
NoConv == "-"                        \* parsePrPath() returned null

\* window.location: the pull request it names (if any) and whether the path
\* ends in /files or /changes.
Locs ==
  {[pr |-> c, files |-> TRUE] : c \in Convs}
    \cup {[pr |-> "X", files |-> FALSE], [pr |-> NoConv, files |-> FALSE]}

\* Mapping references.  owner: the conversation whose view or thread holds
\* the reference; kind: the shape isLikelyMappingUrl looks at; ver: tells
\* two references of the same conversation apart.
NoUrl == [owner |-> NoConv, kind |-> "-", ver |-> 0]
UrlsOf(c) ==
  IF c = "X"
    THEN {[owner |-> c, kind |-> "gm", ver |-> 1],
          [owner |-> c, kind |-> "gm", ver |-> 2],
          [owner |-> c, kind |-> "other", ver |-> 1]}
    ELSE {[owner |-> c, kind |-> "gm", ver |-> 1]}
Urls == UNION {UrlsOf(c) : c \in Convs}

\* Proxy references (origins, as sanitizeProxyUrl leaves them); null is NoUrl.
DEFAULT_PROXY_BASE == [owner |-> "default", kind |-> "proxy", ver |-> 0]
ProxiesOf(c) ==
  {[owner |-> c, kind |-> "proxy", ver |-> 1], [owner |-> c, kind |-> "proxy", ver |-> 2]}

\* Children of the layout wrapper.
PanelNode(p) == <<"panel", p>>
SidebarNode == <<"sidebar", 0>>
DiffNode == <<"diff", 0>>

\* How fetchMapping settles.  Whatever makes it reject (the transport, a
\* non-ok status, the key, the blob, the decryption, the content type, the
\* JSON) reaches init as one rejected promise.
Outcomes == {"ok", "rejected"}

VARIABLES
  loc,             \* window.location (parsePrPath / isFilesTab read it)
  container,       \* findFilesContainer() finds the primary region
  sidebar,         \* findSidebarContainer(): "absent", "apart", "branch"
  layouts,         \* the #agentexport-layout elements in document order, each its children
  overlays,        \* [arrows: the svg is in the document, preview: previewEl # null]
  panelEl,         \* 0 = null, else the panel built by that init invocation
  attachObserver,  \* 0 = null, else the panel its callback closes over
  obsLive,         \* the observed body is still the document's body
  proxyBase,
  mapCache,        \* sessionStorage[mappingCacheKey(c)]
  proxyCache,      \* sessionStorage[proxyCacheKey(c)]
  currentAnchors,  \* conversation whose mapping the anchor entries come from, or NoConv
  body,            \* per panel built, in order: content of its .agentexport-body
  listeners,       \* scroll/resize listener pairs registered on window
  raf,             \* pending requestAnimationFrame callbacks that call drawArrows
  chips,           \* hunk chips and preview: [calls: a renderHunkChips callback is pending,
                   \*   chip: a chip is in the document, previewIn: previewEl is in the
                   \*   document, shown: it lacks the hidden class, pointer: "away"/"over" the chip]
  inits,           \* init invocations so far
  runs,            \* the init runs suspended at an await, oldest first: position and locals
  ended,           \* observation: the init runs that ended in this step
  lastResolve,     \* observation: the resolveMappingUrl / resolveProxyUrl call that returned in this step
  cacheLog,        \* observation: mapping-cache operations of this step
  lastAttach,      \* observation: the attachPanel calls of this step
  framePasses,     \* observation: drawArrows passes run by the last frame
  fm,              \* one fetchMapping call seen from inside: position, locals, requests
  rp,              \* one renderPanel call seen from inside: position, messages, rows
  uc,              \* one sanitizeMappingUrl or normalizeMappingUrl call: input and output
  sel,             \* one extractMappingUrlFromElement call: element, candidates, result
  da,              \* drawArrows seen from inside: entries, their rectangles, the svg's children
  md,              \* one parseMarkdownTranscript call: the lines of the text, the messages
  an,              \* the anchors of one renderPanel call: position, mapping, rows
  lo               \* one anchor lookup seen from inside: position, document, query, element found

vars ==
  <<loc, container, sidebar, layouts, overlays, panelEl, attachObserver, obsLive,
    proxyBase, mapCache, proxyCache, currentAnchors, body, listeners, raf, chips, inits,
    runs, ended, lastResolve, cacheLog, lastAttach, framePasses, fm, rp, uc, sel, da, md, an, lo>>

\* The state as one record, so that the steps of a handler compose.
Cur ==
  [loc |-> loc, container |-> container, sidebar |-> sidebar, layouts |-> layouts,
   overlays |-> overlays, panelEl |-> panelEl, attachObserver |-> attachObserver,
   obsLive |-> obsLive, proxyBase |-> proxyBase, mapCache |-> mapCache,
   proxyCache |-> proxyCache, currentAnchors |-> currentAnchors, body |-> body,
   listeners |-> listeners, raf |-> raf, chips |-> chips, inits |-> inits, runs |-> runs,
   ended |-> <<>>,
   lastResolve |-> <<>>, cacheLog |-> <<>>, lastAttach |-> <<>>,
   framePasses |-> 0]

\* A run that has ended does nothing more: it leaves runs and is kept for
\* this step in ended.
Pending == {"proxyFetch", "convFetch1", "fetch1", "convFetch2", "fetch2"}

Becomes(T) ==
  /\ loc' = T.loc
  /\ container' = T.container
  /\ sidebar' = T.sidebar
  /\ layouts' = T.layouts
  /\ overlays' = T.overlays
  /\ panelEl' = T.panelEl
  /\ attachObserver' = T.attachObserver
  /\ obsLive' = T.obsLive
  /\ proxyBase' = T.proxyBase
  /\ mapCache' = T.mapCache
  /\ proxyCache' = T.proxyCache
  /\ currentAnchors' = T.currentAnchors
  /\ body' = T.body
  /\ listeners' = T.listeners
  /\ raf' = T.raf
  /\ chips' = T.chips
  /\ inits' = T.inits
  /\ runs' = SelectSeq(T.runs, LAMBDA x : x.pc \in Pending)
  /\ ended' = SelectSeq(T.runs, LAMBDA x : x.pc \notin Pending)
  /\ lastResolve' = T.lastResolve
  /\ cacheLog' = T.cacheLog
  /\ lastAttach' = T.lastAttach
  /\ framePasses' = T.framePasses
  /\ fm' = fm
  /\ rp' = rp
  /\ uc' = uc
  /\ sel' = sel
  /\ da' = da
  /\ md' = md
  /\ an' = an
  /\ lo' = lo

\* ---------------------------------------------------------------- helpers
Range(s) == {s[i] : i \in DOMAIN s}

parsePrPath(S) == S.loc.pr

isFilesTab(S) == S.loc.files

isLikelyMappingUrl(u) ==
  /\ u # NoUrl
  /\ u.kind \in {"gm", "blob", "gist", "json"}

\* ------------------------------------------------------ Container Discovery
Without(ls, n) == [i \in DOMAIN ls |-> SelectSeq(ls[i], LAMBDA x : x # n)]

\* node n is a child of the first #agentexport-layout (what getElementById returns)
InFirst(ls, n) == Len(ls) > 0 /\ n \in Range(ls[1])

InDocument(ls, n) == \E i \in DOMAIN ls : n \in Range(ls[i])

\* layout.appendChild(n): n leaves its old parent and becomes the last child
AppendChild(ls, n) == [Without(ls, n) EXCEPT ![1] = Append(@, n)]

\* layout.insertBefore(n, layout.firstChild)
InsertFirst(ls, n) == [Without(ls, n) EXCEPT ![1] = <<n>> \o @]

\* lowestCommonAncestor / directChildOf of attachPanel: the sidebar and the
\* primary region lie in two distinct direct-child branches of a common
\* ancestor other than body and html.  Once both are children of the layout
\* the layout is that ancestor.
TwoBranches(S) ==
  \/ InFirst(S.layouts, SidebarNode) /\ InFirst(S.layouts, DiffNode)
  \/ S.sidebar = "branch"

\* The two-pane branch of attachPanel (lines 517-527).  A branch that holds
\* the layout itself cannot be appended to it: appendChild throws.
AttachTwoPane(S, p) ==
  LET l0 == IF Len(S.layouts) = 0 THEN <<<<>>>> ELSE S.layouts
      l1 == IF InFirst(l0, PanelNode(p)) THEN l0 ELSE AppendChild(l0, PanelNode(p))
      sideIn == InFirst(l1, SidebarNode)
      diffIn == InFirst(l1, DiffNode)
      l2 == IF sideIn THEN l1 ELSE AppendChild(l1, SidebarNode)
      l3 == IF diffIn THEN l2 ELSE AppendChild(l2, DiffNode)
  IN  IF sideIn /\ ~diffIn THEN [res |-> "throw", layouts |-> l1, branch |-> "twoPane"]
      ELSE IF diffIn /\ ~sideIn THEN [res |-> "throw", layouts |-> l2, branch |-> "twoPane"]
      ELSE [res |-> "ok", layouts |-> l3, branch |-> "twoPane"]

\* attachPanel without its lookup of an existing layout, so that it wraps the
\* primary region again: the fault C6 excludes.
attachPanelAlwaysWraps(S, p) ==
  IF ~S.container THEN [res |-> "fail", layouts |-> S.layouts, branch |-> "none"]
  ELSE IF S.sidebar # "absent" /\ TwoBranches(S) THEN AttachTwoPane(S, p)
  ELSE [res |-> "ok",
        layouts |-> <<<<PanelNode(p), DiffNode>>>>
                      \o Without(Without(S.layouts, PanelNode(p)), DiffNode),
        branch |-> "wrap"]

\* attachPanel(panel): res is "fail" (returned false), "ok" (returned true)
\* or "throw"; layouts is the document afterwards.
attachPanel(S, p) ==
  IF ~S.container THEN [res |-> "fail", layouts |-> S.layouts, branch |-> "none"]
  ELSE IF S.sidebar # "absent" /\ TwoBranches(S) THEN AttachTwoPane(S, p)
  ELSE IF Len(S.layouts) > 0
    THEN [res |-> "ok",
          layouts |-> IF InFirst(S.layouts, PanelNode(p)) THEN S.layouts
                      ELSE InsertFirst(S.layouts, PanelNode(p)),
          branch |-> "existing"]
  ELSE [res |-> "ok", layouts |-> <<<<PanelNode(p), DiffNode>>>>, branch |-> "wrap"]

Attached(S, p, a) ==
  [S EXCEPT !.layouts = a.layouts,
            !.lastAttach = Append(@, [panel |-> p, res |-> a.res, branch |-> a.branch])]

\* waitForFilesContainer(panel); thrown tells the caller that attachPanel threw.
waitForFilesContainer(S, p) ==
  LET a == attachPanel(S, p)
      T == Attached(S, p, a)
  IN  IF a.res = "ok" THEN [s |-> T, thrown |-> FALSE]
      ELSE IF a.res = "throw" THEN [s |-> T, thrown |-> TRUE]
      ELSE [s |-> [T EXCEPT !.attachObserver = p, !.obsLive = TRUE], thrown |-> FALSE]

\* An observer registered without subtree: true, whose callback the
\* mutations below the body never reach: the fault C11 excludes.
ObserverCallbackNotDelivered(S) == S

\* The MutationObserver callback registered by waitForFilesContainer.
ObserverCallback(S) ==
  IF S.attachObserver = 0 \/ ~S.obsLive THEN S
  ELSE LET a == attachPanel(S, S.attachObserver)
           T == Attached(S, S.attachObserver, a)
       IN  IF a.res = "ok" THEN [T EXCEPT !.attachObserver = 0] ELSE T

clearPanel(S) ==
  [S EXCEPT !.layouts = IF S.panelEl = 0 THEN @ ELSE Without(@, PanelNode(S.panelEl)),
            !.panelEl = 0,
            !.currentAnchors = NoConv]

\* ensureOverlays() (lines 395-407): the svg is looked up in the document, the
\* preview in the variable previewEl.
NoChips ==
  [calls |-> FALSE, chip |-> FALSE, previewIn |-> FALSE, shown |-> FALSE, pointer |-> "away"]
ensureOverlays(S) ==
  [S EXCEPT !.overlays = [arrows |-> TRUE, preview |-> TRUE],
            !.chips = IF S.overlays.preview THEN @
                      ELSE [@ EXCEPT !.previewIn = TRUE, !.shown = FALSE]]

\* buildPanel(): the body starts in the loading state
Loading == [kind |-> "loading", of |-> NoConv]
buildPanel(S) == [S EXCEPT !.panelEl = Len(S.body) + 1, !.body = Append(@, Loading)]

\* ------------------------------------------------------------- init runs
\* pc: the await the run is suspended at, or how it ended.  info, domUrl,
\* cached and mappingUrl are the locals alive across that await; attempts
\* (fetchMapping calls), failures (those that rejected), reresolves (resolveMappingUrl calls of the catch handler),
\* requested (a network request was issued) and tried (waitForFilesContainer
\* was called) are observations.
NewRun ==
  [pc |-> "new", info |-> NoConv, domUrl |-> NoUrl, cached |-> NoUrl,
   mappingUrl |-> NoUrl, attempts |-> 0, failures |-> 0, reresolves |-> 0, requested |-> FALSE, tried |-> FALSE]

\* The run ends: its locals are dropped, its counters (observations) stay.
Finish(S, r, how) ==
  [S EXCEPT !.runs[r].pc = how, !.runs[r].info = NoConv, !.runs[r].domUrl = NoUrl,
            !.runs[r].cached = NoUrl, !.runs[r].mappingUrl = NoUrl]

\* An observation of a resolution: ev is "start" (the call) or "return";
\* entry is the cache entry under key at that moment; view, cached and fetched
\* are what the call read from the document, from the cache and from the
\* Conversation Fetcher (consulted: it was asked); ret is what it returned.
Event(ev, fn, retry, key, entry, view, cached, consulted, fetched, ret) ==
  [ev |-> ev, fn |-> fn, retry |-> retry, key |-> key, entry |-> entry, view |-> view,
   cached |-> cached, consulted |-> consulted, fetched |-> fetched, ret |-> ret]

CacheOp(op, key, val, why, ref) ==
  [op |-> op, key |-> key, val |-> val, why |-> why, ref |-> ref]

\* sessionStorage.setItem(mappingCacheKey(info), u)
SetMapCache(S, k, u, why) ==
  [S EXCEPT !.mapCache[k] = u,
            !.cacheLog = Append(@, CacheOp("set", k, u, why, NoUrl))]

\* sessionStorage.removeItem(mappingCacheKey(info)); val is the entry removed
RemoveMapCache(S, k, why, ref) ==
  [S EXCEPT !.mapCache[k] = NoUrl,
            !.cacheLog = Append(@, CacheOp("remove", k, S.mapCache[k], why, ref))]

\* init's outer catch (lines 968-973): panelEl.querySelector on a null panelEl
\* throws inside the handler and the rejection of init() is unhandled.
OuterCatch(S, r) ==
  IF S.panelEl = 0 THEN Finish(S, r, "unhandled")
  ELSE Finish([S EXCEPT !.body[S.panelEl] = [kind |-> "error", of |-> NoConv]], r, "error")

\* lines 938-944; a throw on the null panelEl is caught by the outer catch
RenderEmpty(S, r) ==
  IF S.panelEl = 0 THEN OuterCatch(S, r)
  ELSE Finish([S EXCEPT !.body[S.panelEl] = [kind |-> "empty", of |-> NoConv]], r, "empty")

\* renderPanel(panelEl, mapping, prBase) and the listener registration that
\* follows it (lines 962-967), for a mapping with at least one message.
renderPanel(S, r) ==
  IF S.panelEl = 0 THEN OuterCatch(S, r)
  ELSE LET o == S.runs[r].mappingUrl.owner
       IN  Finish([S EXCEPT !.body[S.panelEl] = [kind |-> "list", of |-> o],
                            !.currentAnchors = o,
                            !.raf = @ + 1,
                            !.chips.calls = TRUE,
                            !.listeners = @ + 1], r, "rendered")

\* fetchMapping(mappingUrl) up to its await of the network; the observation
\* holds the reference (view) and the proxyBase that proxiedUrlFor reads (ret)
StartFetch(S, r, u, pc) ==
  [S EXCEPT !.runs[r].pc = pc, !.runs[r].mappingUrl = u,
            !.runs[r].info = NoConv, !.runs[r].domUrl = NoUrl, !.runs[r].cached = NoUrl,
            !.runs[r].attempts = @ + 1, !.runs[r].requested = TRUE,
            !.lastResolve = Append(@, Event("start", "fetch", pc = "fetch2", u.owner, NoUrl,
                                            u, NoUrl, FALSE, NoUrl, S.proxyBase))]

\* init after resolveMappingUrl returned u (lines 938-947, 953-957)
AfterResolve(S, r, u, retry) ==
  IF ~retry
    THEN IF u = NoUrl THEN RenderEmpty(S, r) ELSE StartFetch(S, r, u, "fetch1")
    ELSE IF u # NoUrl THEN StartFetch(S, r, u, "fetch2") ELSE OuterCatch(S, r)

Returned(S, retry, k, view, cached, consulted, fetched, ret) ==
  [S EXCEPT !.lastResolve =
     Append(@, Event("return", "mapping", retry, k, S.mapCache[k], view, cached,
                     consulted, fetched, ret))]

\* resolveMappingUrl that leaves an invalid cached value in place: the fault
\* C27 excludes.
ResolveMappingSyncKeepsInvalid(S, r, view, retry) ==
  LET info == parsePrPath(S) IN
  IF info = NoConv THEN AfterResolve(S, r, NoUrl, retry)
  ELSE
    LET S0 == [S EXCEPT !.lastResolve =
                 Append(@, Event("start", "mapping", retry, info, S.mapCache[info],
                                 view, NoUrl, FALSE, NoUrl, NoUrl))]
    IN
    IF isLikelyMappingUrl(view)
      THEN LET S1 == SetMapCache(S0, info, view, "view")
           IN  AfterResolve(Returned(S1, retry, info, view, NoUrl, FALSE, NoUrl, view),
                            r, view, retry)
      ELSE LET cached == S0.mapCache[info]
               S1 == S0
           IN  [S1 EXCEPT !.runs[r].pc = IF retry THEN "convFetch2" ELSE "convFetch1",
                          !.runs[r].info = info,
                          !.runs[r].domUrl = view,
                          !.runs[r].cached = cached,
                          !.runs[r].requested = TRUE]

\* resolveMappingUrl up to its await of the Conversation Fetcher (lines
\* 305-326); view is what findMappingUrlInDom finds in the current document.
ResolveMappingSync(S, r, view, retry) ==
  LET info == parsePrPath(S) IN
  IF info = NoConv THEN AfterResolve(S, r, NoUrl, retry)
  ELSE
    LET S0 == [S EXCEPT !.lastResolve =
                 Append(@, Event("start", "mapping", retry, info, S.mapCache[info],
                                 view, NoUrl, FALSE, NoUrl, NoUrl))]
    IN
    IF isLikelyMappingUrl(view)
      THEN LET S1 == SetMapCache(S0, info, view, "view")
           IN  AfterResolve(Returned(S1, retry, info, view, NoUrl, FALSE, NoUrl, view),
                            r, view, retry)
      ELSE LET cached == S0.mapCache[info]
               S1 == IF cached # NoUrl /\ ~isLikelyMappingUrl(cached)
                       THEN RemoveMapCache(S0, info, "invalid", cached) ELSE S0
           IN  [S1 EXCEPT !.runs[r].pc = IF retry THEN "convFetch2" ELSE "convFetch1",
                          !.runs[r].info = info,
                          !.runs[r].domUrl = view,
                          !.runs[r].cached = cached,
                          !.runs[r].requested = TRUE]

\* resolveMappingUrl with the validated cached value tried before the
\* re-derived one: the fault C3 excludes.
ResolveMappingRestCachedFirst(S, r, fetched, retry) ==
  LET info == S.runs[r].info
      domUrl == S.runs[r].domUrl
      cached == S.runs[r].cached
  IN  IF isLikelyMappingUrl(cached)
        THEN AfterResolve(Returned(S, retry, info, domUrl, cached, TRUE, fetched, cached),
                          r, cached, retry)
      ELSE IF isLikelyMappingUrl(fetched)
        THEN LET S1 == SetMapCache(S, info, fetched, "thread")
             IN  AfterResolve(Returned(S1, retry, info, domUrl, cached, TRUE, fetched, fetched),
                              r, fetched, retry)
      ELSE AfterResolve(Returned(S, retry, info, domUrl, cached, TRUE, fetched, NoUrl),
                        r, NoUrl, retry)

\* resolveMappingUrl from the Conversation Fetcher's answer on (lines 326-332)
ResolveMappingRest(S, r, fetched, retry) ==
  LET info == S.runs[r].info
      domUrl == S.runs[r].domUrl
      cached == S.runs[r].cached
      cachedOk == isLikelyMappingUrl(cached)
  IN  IF isLikelyMappingUrl(fetched)
        THEN LET S1 == SetMapCache(S, info, fetched, "thread")
             IN  AfterResolve(Returned(S1, retry, info, domUrl, cached, TRUE, fetched, fetched),
                              r, fetched, retry)
        ELSE LET ret == IF cachedOk THEN cached ELSE NoUrl
             IN  AfterResolve(Returned(S, retry, info, domUrl, cached, TRUE, fetched, ret),
                              r, ret, retry)

\* init after resolveProxyUrl returned p (lines 936-937)
AfterProxy(S, r, p, viewM) ==
  ResolveMappingSync([S EXCEPT !.proxyBase = IF p # NoUrl THEN p ELSE @], r, viewM, FALSE)

ProxyReturned(S, k, view, cached, consulted, fetched, ret) ==
  [S EXCEPT !.lastResolve =
     Append(@, Event("return", "proxy", FALSE, k, S.proxyCache[k], view, cached,
                     consulted, fetched, ret))]

\* resolveProxyUrl up to its await of the Conversation Fetcher (lines 346-359).
\* Every cached value modelled is an origin, so sanitizeProxyUrl accepts it.
ResolveProxySync(S, r, viewP, viewM) ==
  LET info == parsePrPath(S) IN
  IF info = NoConv THEN AfterProxy(S, r, NoUrl, viewM)
  ELSE IF viewP # NoUrl
    THEN AfterProxy(ProxyReturned([S EXCEPT !.proxyCache[info] = viewP],
                                  info, viewP, NoUrl, FALSE, NoUrl, viewP), r, viewP, viewM)
  ELSE LET cached == S.proxyCache[info]
       IN  IF cached # NoUrl
             THEN AfterProxy(ProxyReturned(S, info, NoUrl, cached, FALSE, NoUrl, cached),
                             r, cached, viewM)
             ELSE [S EXCEPT !.runs[r].pc = "proxyFetch", !.runs[r].info = info,
                            !.runs[r].requested = TRUE]

\* resolveProxyUrl from the Conversation Fetcher's answer on (lines 359-364)
ResolveProxyRest(S, r, fetched, viewM) ==
  LET info == S.runs[r].info
      S1 == IF fetched # NoUrl THEN [S EXCEPT !.proxyCache[info] = fetched] ELSE S
  IN  AfterProxy(ProxyReturned(S1, info, NoUrl, NoUrl, TRUE, fetched, fetched), r, fetched, viewM)

\* init() up to its first await of the network (lines 923-937).  An exception
\* of waitForFilesContainer leaves init before its try block.
InvokeInit(S, viewP, viewM) ==
  LET n == Len(S.runs) + 1
      S0 == [S EXCEPT !.runs = Append(@, NewRun), !.inits = @ + 1]
  IN  IF ~isFilesTab(S0) THEN Finish(clearPanel(S0), n, "cleared")
      ELSE LET S1 == ensureOverlays(S0)
               S2 == IF S1.panelEl = 0 THEN buildPanel(S1) ELSE S1
               w == waitForFilesContainer(S2, S2.panelEl)
               S3 == [w.s EXCEPT !.runs[n].tried = TRUE]
           IN  IF w.thrown THEN Finish(S3, n, "unhandled")
               ELSE ResolveProxySync(S3, n, viewP, viewM)

\* ------------------------------------------------- fetchMapping from inside
\* A mapping reference as the URL parser sees it: host, path segments and
\* fragment.  A fragment is the key text: n base64url characters followed by
\* eq '=' characters, id telling two keys of the same length apart; NoKey is
\* the empty fragment.
NoKey == [n |-> 0, eq |-> 0, id |-> 0]
GistHost == "gist.githubusercontent.com"
MappingHosts == {"agentexports.com", GistHost}

\* pathname.startsWith("/seg/")
StartsWith(path, seg) == Len(path) >= 2 /\ path[1] = seg

\* normalizeMappingUrl rewriting the first /g/ wherever it stands: the fault
\* C20 excludes.
normalizeMappingUrlAnywhere(u) ==
  LET p1 == IF u.hash # NoKey /\ StartsWith(u.path, "v")
              THEN <<"blob">> \o Tail(u.path) ELSE u.path
      at == {i \in 1..(Len(p1) - 1) : p1[i] = "g"}
      first == CHOOSE i \in at : \A j \in at : i <= j
  IN  [u EXCEPT !.path = IF at = {} THEN p1 ELSE [p1 EXCEPT ![first] = "gm"]]

\* normalizeMappingUrl rewriting /v/ whether or not a key is there: the fault
\* C29 excludes.
normalizeMappingUrlIgnoresKey(u) ==
  LET p1 == IF StartsWith(u.path, "v") THEN <<"blob">> \o Tail(u.path) ELSE u.path
      p2 == IF StartsWith(p1, "g") THEN <<"gm">> \o Tail(p1) ELSE p1
  IN  [u EXCEPT !.path = p2]

\* new URL(raw, window.location.href) with both rewrites (lines 103-112)
normalizeMappingUrl(u) ==
  LET p1 == IF u.hash # NoKey /\ StartsWith(u.path, "v")
              THEN <<"blob">> \o Tail(u.path) ELSE u.path
      p2 == IF StartsWith(p1, "g") THEN <<"gm">> \o Tail(p1) ELSE p1
  IN  [u EXCEPT !.path = p2]

\* proxiedUrlFor(url): what is requested is url itself, or the /proxy
\* endpoint of base with url.toString() as its url parameter.
proxiedUrlFor(url, base) ==
  IF url.host = GistHost THEN [proxy |-> base, url |-> url]
  ELSE [proxy |-> NoUrl, url |-> url]

NoTarget == [proxy |-> NoUrl, url |-> [host |-> "-", path |-> <<>>, hash |-> NoKey]]
NoResource == [ok |-> FALSE, buffer |-> <<>>]
NoFetch ==
  [pc |-> "idle", ref |-> NoTarget.url, key |-> NoKey, target |-> NoTarget,
   reqs |-> <<>>, direct |-> "-", indirect |-> "-", resource |-> NoResource,
   result |-> "-"]

\* fetchMapping's hash handling: the key is the fragment without its '#'
\* and the fragment is removed from the URL before anything is requested.
\* Without the first assignment the fault C13 excludes.
FetchTargetKeepsHash(u, base) == proxiedUrlFor(normalizeMappingUrl(u), base)

\* lines 213-216: the URL handed to fetchMappingResource
FetchTarget(u, base) ==
  proxiedUrlFor([normalizeMappingUrl(u) EXCEPT !.hash = NoKey], base)

\* fetchMapping(mappingUrl) up to the await of fetch(url) in
\* fetchMappingResource (lines 213-216, 231-232)
FetchCall(F, u, base) ==
  LET t == FetchTarget(u, base)
  IN  [F EXCEPT !.pc = "direct", !.ref = u, !.key = normalizeMappingUrl(u).hash,
                !.target = t, !.reqs = Append(@, [chan |-> "direct", url |-> t])]

Rejected(F, why) == [F EXCEPT !.pc = "done", !.result = why]

\* Bytes.  A byte is a character of text ("c"), a byte of a nonce ("n"), a
\* byte of a gzip stream ("z"), such a byte encrypted under key k and nonce n
\* ("e"), or a byte of the authentication tag that AES-GCM computes over
\* the plaintext pt under k and n ("tag").
Byte(kind, c, k, n, pt) == [kind |-> kind, c |-> c, k |-> k, n |-> n, pt |-> pt]
Ch(c) == Byte("c", c, 0, 0, <<>>)
Chs(text) == [i \in DOMAIN text |-> Ch(text[i])]

KEY_BYTES == 32
NONCE_BYTES == 12
TAG_BYTES == 16

\* What the exporter publishes: JSON.stringify, gzip, AES-256-GCM.
Mappings == {"1", "2"}
Stringify(m) == <<"{", m, "}">>
Zb(c) == Byte("z", c, 0, 0, <<>>)
Zbs(text) == [i \in DOMAIN text |-> Zb(text[i])]
Gzip(text) == <<Zb("hdr")>> \o Zbs(text)
Nonce(a) == [i \in 1..NONCE_BYTES |-> Byte("n", "-", 0, a, <<>>)]
Seal(k, a, plain) ==
  [i \in DOMAIN plain |-> Byte("e", plain[i].c, k, a, <<>>)]
    \o [i \in 1..TAG_BYTES |-> Byte("tag", "-", k, a, plain)]
Payload(k, a, m) == Nonce(a) \o Seal(k, a, Gzip(Stringify(m)))

\* base64UrlDecode(key): the number of bytes atob yields, -1 when it throws.
\* The text has n alphabet characters and eq trailing '='; the code pads it
\* to a multiple of 4 and atob drops up to two trailing '='.
base64UrlDecode(key) ==
  LET len == key.n + key.eq
      pad == len % 4
      added == IF pad = 0 THEN 0 ELSE 4 - pad
      eqs == key.eq + added
      dropped == IF eqs > 2 THEN 2 ELSE eqs
      rest == len + added - dropped
  IN  IF eqs > dropped \/ rest % 4 = 1 THEN -1 ELSE (rest * 6) \div 8

\* crypto.subtle.decrypt: the plaintext when the tag authenticates the
\* ciphertext under this key and this iv.
Decrypts(k, iv, ct) ==
  /\ Len(ct) >= TAG_BYTES
  /\ LET data == SubSeq(ct, 1, Len(ct) - TAG_BYTES)
         tag == ct[Len(ct)]
     IN  /\ tag.kind = "tag" /\ tag.k = k /\ iv = Nonce(tag.n)
         /\ \A i \in (Len(ct) - TAG_BYTES + 1)..Len(ct) : ct[i] = tag
         /\ Len(tag.pt) = Len(data)
         /\ \A i \in DOMAIN data :
              data[i] = Byte("e", tag.pt[i].c, k, tag.n, <<>>)

\* decompress(data): DecompressionStream("gzip") fails on anything but a
\* gzip stream.
IsGzip(data) ==
  /\ Len(data) >= 1
  /\ data[1] = Zb("hdr")
  /\ \A i \in 2..Len(data) : data[i].kind = "z" /\ data[i].c # "hdr"

\* TextDecoder.decode: bytes that are no text decode to U+FFFD
Decode(bytes) == [i \in DOMAIN bytes |-> IF bytes[i].kind \in {"c", "z"} THEN bytes[i].c ELSE "?"]

\* JSON.parse(text): the Mapping, or a SyntaxError.  White space between
\* the tokens of a JSON text is insignificant.
JsonParse(text) ==
  LET t == SelectSeq(text, LAMBDA c : c # " ")
  IN  IF Len(t) = 3 /\ t[1] = "{" /\ t[2] \in Mappings /\ t[3] = "}"
        THEN t[2] ELSE "SyntaxError"

\* decryptBlob taking the ciphertext from one byte too far: the fault C17
\* excludes.
decryptBlobSkipsAByte(buffer, key) ==
  LET keyBytes == base64UrlDecode(key)
      iv == SubSeq(buffer, 1, NONCE_BYTES)
      ciphertext == SubSeq(buffer, NONCE_BYTES + 2, Len(buffer))
  IN  IF keyBytes = -1 THEN "InvalidCharacter"
      ELSE IF keyBytes # KEY_BYTES THEN "InvalidKey"
      ELSE IF Len(buffer) < 13 THEN "InvalidBlob"
      ELSE IF ~Decrypts(key.id, iv, ciphertext) THEN "OperationError"
      ELSE LET compressed == ciphertext[Len(ciphertext)].pt
           IN  IF IsGzip(compressed) THEN JsonParse(Decode(Tail(compressed)))
               ELSE "DecompressError"

\* decryptBlob(buffer, key) followed by JSON.parse (lines 190-201, 219-221):
\* the Mapping, or the error thrown.
decryptBlob(buffer, key) ==
  LET keyBytes == base64UrlDecode(key)
      iv == SubSeq(buffer, 1, NONCE_BYTES)
      ciphertext == SubSeq(buffer, NONCE_BYTES + 1, Len(buffer))
  IN  IF keyBytes = -1 THEN "InvalidCharacter"
      ELSE IF keyBytes # KEY_BYTES THEN "InvalidKey"
      ELSE IF Len(buffer) < 13 THEN "InvalidBlob"
      ELSE IF ~Decrypts(key.id, iv, ciphertext) THEN "OperationError"
      ELSE LET compressed == ciphertext[Len(ciphertext)].pt
           IN  IF IsGzip(compressed) THEN JsonParse(Decode(Tail(compressed)))
               ELSE "DecompressError"

\* /^\s*</.test(text)
SniffsMarkup(text) ==
  \E i \in DOMAIN text : text[i] = "<" /\ \A j \in 1..(i - 1) : text[j] = " "

\* The sniff without its \s*: the fault the amended C16 excludes.
ParseTextStrictSniff(text) ==
  IF Len(text) >= 1 /\ text[1] = "<" THEN "UnexpectedContentType" ELSE JsonParse(text)

\* lines 223-227
ParseText(text) ==
  IF SniffsMarkup(text) THEN "UnexpectedContentType" ELSE JsonParse(text)

\* fetchMappingResource falling back to the background script on a response
\* of non-ok status as well: the fault C14 excludes.
DirectSettledFallsBackOnStatus(F, out) ==
  IF out.kind = "response" /\ out.ok
    THEN [F EXCEPT !.direct = "ok", !.pc = "fetched",
                   !.resource = [ok |-> TRUE, buffer |-> out.buffer]]
  ELSE IF out.kind = "throwNoChannel"
    THEN Rejected([F EXCEPT !.direct = "threw"], "TransportError")
  ELSE [F EXCEPT !.direct = IF out.kind = "response" THEN "notOk" ELSE "threw",
                 !.pc = "indirect",
                 !.reqs = Append(@, [chan |-> "indirect", url |-> F.target])]

\* fetchMappingResource when fetch(url) has settled (lines 231-236, 255):
\* direct tells how, resource is what it resolves with.
DirectSettled(F, out) ==
  IF out.kind = "response"
    THEN [F EXCEPT !.direct = IF out.ok THEN "ok" ELSE "notOk", !.pc = "fetched",
                   !.resource = [ok |-> out.ok, buffer |-> out.buffer]]
  ELSE IF out.kind = "throwNoChannel"
    THEN Rejected([F EXCEPT !.direct = "threw"], "TransportError")
  ELSE [F EXCEPT !.direct = "threw", !.pc = "indirect",
                 !.reqs = Append(@, [chan |-> "indirect", url |-> F.target])]

\* the sendMessage callback (lines 237-250)
IndirectSettled(F, out) ==
  IF out.kind = "response"
    THEN [F EXCEPT !.indirect = IF out.ok THEN "ok" ELSE "notOk", !.pc = "fetched",
                   !.resource = [ok |-> out.ok, buffer |-> out.buffer]]
  ELSE Rejected([F EXCEPT !.indirect = out.kind], out.kind)

\* fetchMapping once fetchMappingResource has resolved (lines 217-227)
Resolved(F) ==
  IF F.pc # "fetched" THEN F
  ELSE [F EXCEPT !.pc = "done",
                 !.result = IF ~F.resource.ok THEN "HttpError"
                            ELSE IF F.key # NoKey THEN decryptBlob(F.resource.buffer, F.key)
                            ELSE ParseText(Decode(F.resource.buffer))]

\* ------------------------------------------------- the Reference Locator
\* A candidate text is a URL text (core) with characters before it (pre) and
\* behind it (post).  core.ok tells whether new URL(core) parses; host, path
\* and hash are what it parses to.  Characters before the URL text make
\* new URL throw; the characters modelled behind it are all legal in a URL.
NoParsed == [ok |-> FALSE, host |-> "-", path |-> <<>>, hash |-> NoKey]
NoUrlCall ==
  [pc |-> "idle", fn |-> "-", pre |-> <<>>, core |-> NoParsed, post |-> <<>>,
   out |-> NoParsed, again |-> NoParsed]

\* the characters of line 119 that the inputs below can end with (the source
\* also lists the backquote and the typographic quotes)
TrailingPunctuation == {")", "]", "}", ">", ".", ",", ";", "\"", "'"}

\* the while loop of lines 119-121
RECURSIVE StripTrailing(_)
StripTrailing(post) ==
  IF post # <<>> /\ post[Len(post)] \in TrailingPunctuation
    THEN StripTrailing(SubSeq(post, 1, Len(post) - 1))
    ELSE post

\* /\/seg\//i.test(pathname): a segment that a slash follows
Lower(seg) == IF seg = "G" THEN "g" ELSE IF seg = "GM" THEN "gm" ELSE seg
HasSegment(path, seg) == \E i \in 1..(Len(path) - 1) : Lower(path[i]) = seg

\* lines 128-133
CanonicalHost(host) ==
  IF host \in {"gist.githubusercontent.co", "gist.githubuser.example"} THEN GistHost
  ELSE host

\* sanitizeMappingUrl without its test of the legacy path: the fault C19
\* excludes.
sanitizeMappingUrlKeepsLegacy(pre, core, post) ==
  LET unwrap == pre # <<>> /\ pre[1] = "<" /\ post # <<>> /\ post[Len(post)] = ">"
      pre1 == IF unwrap THEN Tail(pre) ELSE pre
      post1 == IF unwrap THEN SubSeq(post, 1, Len(post) - 1) ELSE post
      post2 == StripTrailing(post1)
      quoted == /\ pre1 # <<>> /\ pre1[1] \in {"\"", "'"}
                /\ post2 # <<>> /\ post2[Len(post2)] = pre1[1]
      pre2 == IF quoted THEN Tail(pre1) ELSE pre1
  IN  IF pre2 # <<>> \/ ~core.ok THEN NoParsed
      ELSE [core EXCEPT !.host = CanonicalHost(@)]

\* sanitizeMappingUrl(raw) (lines 114-141); NoParsed is null.  The quotes of
\* lines 122-124 are removed only when one still stands at the end.
sanitizeMappingUrl(pre, core, post) ==
  LET unwrap == pre # <<>> /\ pre[1] = "<" /\ post # <<>> /\ post[Len(post)] = ">"
      pre1 == IF unwrap THEN Tail(pre) ELSE pre
      post1 == IF unwrap THEN SubSeq(post, 1, Len(post) - 1) ELSE post
      post2 == StripTrailing(post1)
      quoted == /\ pre1 # <<>> /\ pre1[1] \in {"\"", "'"}
                /\ post2 # <<>> /\ post2[Len(post2)] = pre1[1]
      pre2 == IF quoted THEN Tail(pre1) ELSE pre1
      post3 == IF quoted THEN SubSeq(post2, 1, Len(post2) - 1) ELSE post2
  IN  IF pre2 # <<>> \/ ~core.ok THEN NoParsed
      ELSE IF HasSegment(core.path, "g") /\ ~HasSegment(core.path, "gm") THEN NoParsed
      ELSE [core EXCEPT !.host = CanonicalHost(@)]

\* inputs of the two calls
MaxPunct == 2
MaxSegs == 3
Pres == {<<>>, <<"<">>, <<"\"">>, <<"'">>}
PostChars == {">", ")", ".", "\"", "'"}
Posts == UNION {[1..n -> PostChars] : n \in 0..MaxPunct}
UrlHosts == MappingHosts \cup {"gist.githubusercontent.co", "gist.githubuser.example"}
Segs == {"g", "G", "gm", "v", "x"}
UrlPaths == UNION {[1..n -> Segs] : n \in 1..MaxSegs}
UrlKeys == {NoKey, [n |-> 43, eq |-> 0, id |-> 1]}
ParsedCores == [ok : {TRUE}, host : UrlHosts, path : UrlPaths, hash : UrlKeys]
Cores == ParsedCores \cup {NoParsed}

\* ------------------------------------- extractMappingUrlFromElement from inside
\* An element holds marker-bearing containers in document order; a container
\* holds the hrefs of its a[href^='http'] anchors and the URL token of its
\* first marker line (NoParsed: the line holds no URL).  own is the URL token
\* of the first marker line of an element without such containers.
NoSelect ==
  [pc |-> "idle", containers |-> <<>>, own |-> NoParsed, marker |-> FALSE,
   candidates |-> <<>>, out |-> NoParsed]

MAX_CONTAINERS == 20

\* extractMappingUrl(text) (lines 31-41) on a text whose first marker line
\* holds the URL token inline
extractMappingUrl(inline) == sanitizeMappingUrl(<<>>, inline, <<>>)

JsonSegs == {"x.json", "agentexport-map.json"}
MarkerSegs == {"agentexport-map.json"}
AnySegment(path, seg) == \E i \in 1..Len(path) : path[i] = seg

\* the score of lines 77-85 with +20 for the canonical path: the fault C22
\* excludes.
ScoreLowCanonical(href) ==
  (IF HasSegment(href.path, "gm") THEN 20 ELSE 0)
  + (IF \E m \in MarkerSegs : AnySegment(href.path, m) THEN 50 ELSE 0)
  + (IF href.host = GistHost THEN 40 ELSE 0)
  + (IF href.path # <<>> /\ href.path[Len(href.path)] \in JsonSegs THEN 30 ELSE 0)
  + (IF HasSegment(href.path, "blob") THEN 25 ELSE 0)
  + (IF href.host = "agentexports.com" THEN 10 ELSE 0)
  - (IF HasSegment(href.path, "v") THEN 10 ELSE 0)
  - (IF HasSegment(href.path, "g") /\ ~HasSegment(href.path, "gm") THEN 100 ELSE 0)

\* the score of one candidate (lines 77-85)
Score(href) ==
  (IF HasSegment(href.path, "gm") THEN 80 ELSE 0)
  + (IF \E m \in MarkerSegs : AnySegment(href.path, m) THEN 50 ELSE 0)
  + (IF href.host = GistHost THEN 40 ELSE 0)
  + (IF href.path # <<>> /\ href.path[Len(href.path)] \in JsonSegs THEN 30 ELSE 0)
  + (IF HasSegment(href.path, "blob") THEN 25 ELSE 0)
  + (IF href.host = "agentexports.com" THEN 10 ELSE 0)
  - (IF HasSegment(href.path, "v") THEN 10 ELSE 0)
  - (IF HasSegment(href.path, "g") /\ ~HasSegment(href.path, "gm") THEN 100 ELSE 0)

\* what sanitizeMappingUrl lets through of a list of hrefs (lines 64-68)
RECURSIVE Sanitized(_)
Sanitized(hrefs) ==
  IF hrefs = <<>> THEN <<>>
  ELSE LET h == sanitizeMappingUrl(<<>>, Head(hrefs), <<>>)
       IN  (IF h # NoParsed THEN <<h>> ELSE <<>>) \o Sanitized(Tail(hrefs))

\* the loop of lines 62-71
RECURSIVE Collect(_)
Collect(containers) ==
  IF containers = <<>> THEN <<>>
  ELSE LET c == Head(containers)
           extracted == extractMappingUrl(c.inline)
       IN  Sanitized(c.anchors)
             \o (IF extracted # NoParsed THEN <<extracted>> ELSE <<>>)
             \o Collect(Tail(containers))

\* the loop of lines 74-90 from candidate i on: <<best, bestScore>>
RECURSIVE Best(_, _, _)
Best(candidates, best, bestScore) ==
  IF candidates = <<>> THEN best
  ELSE LET score == Score(Head(candidates))
       IN  IF score > bestScore
             THEN Best(Tail(candidates), Head(candidates), score)
             ELSE Best(Tail(candidates), best, bestScore)

\* extractMappingUrlFromElement(el) (lines 53-95)
Select(el) ==
  LET containers == SubSeq(el.containers, 1,
                           IF Len(el.containers) < MAX_CONTAINERS
                             THEN Len(el.containers) ELSE MAX_CONTAINERS)
      candidates == Collect(containers)
      best == Best(candidates, NoParsed, -1)
      text == IF el.containers = <<>> THEN el.own ELSE el.containers[1].inline
  IN  [el EXCEPT !.pc = "done",
                 !.candidates = IF el.marker THEN candidates ELSE <<>>,
                 !.out = IF ~el.marker THEN NoParsed
                         ELSE IF best # NoParsed THEN best
                         ELSE extractMappingUrl(text)]

\* inputs
MaxRegions == 2
MaxAnchors == 1
Href(host, path, hash) == [ok |-> TRUE, host |-> host, path |-> path, hash |-> hash]
AKey == [n |-> 43, eq |-> 0, id |-> 1]
Hrefs ==
  {Href("agentexports.com", <<"gm", "x">>, NoKey),
   Href("agentexports.com", <<"x.json">>, NoKey),
   Href("agentexports.com", <<"v", "x">>, AKey),
   Href("agentexports.com", <<"blob", "x">>, AKey),
   Href("agentexports.com", <<"g", "x">>, NoKey),
   Href(GistHost, <<"x", "agentexport-map.json">>, NoKey),
   Href("example.org", <<"gm", "x">>, NoKey),
   Href("example.org", <<"x.json">>, NoKey),
   Href("example.org", <<"v", "x">>, NoKey),
   Href("example.org", <<"x">>, NoKey)}
InlineHrefs ==
  {NoParsed,
   Href("example.org", <<"gm", "x">>, NoKey),
   Href("example.org", <<"x.json">>, NoKey),
   Href("example.org", <<"v", "x">>, NoKey),
   Href("example.org", <<"x", "x">>, NoKey)}
Regions ==
  [anchors : UNION {[1..n -> Hrefs] : n \in 0..MaxAnchors}, inline : InlineHrefs]
Elements ==
  {[NoSelect EXCEPT !.containers = cs, !.marker = TRUE] :
     cs \in UNION {[1..n -> Regions] : n \in 1..MaxRegions}}
    \cup {[NoSelect EXCEPT !.own = own, !.marker = m] :
            own \in InlineHrefs, m \in BOOLEAN}

\* ---------------------------------------------------- drawArrows from inside
\* An entry of currentAnchors is a list item with its rectangle (from) and an
\* anchor that findLineElement locates or not, with the rectangle of the
\* line element (to).  svg is the list of children of #agentexport-arrows.
INNER_HEIGHT == 2
INNER_WIDTH == 2
NoRect == [top |-> 0, bottom |-> 0, left |-> 0, right |-> 0]
NoDraw == [pc |-> "idle", entries |-> <<>>, svg |-> <<>>, scrolls |-> 0]

Max(a, b) == IF a > b THEN a ELSE b

\* the path and the circle of one entry (lines 894-913); y is kept doubled,
\* top + height / 2 being (top + bottom) / 2
Shapes(i, e) ==
  LET endX == Max(0, e.to.left - 8)
  IN  <<[kind |-> "path", entry |-> i, x |-> e.from.right, y |-> e.from.top + e.from.bottom],
        [kind |-> "circle", entry |-> i, x |-> endX, y |-> e.to.top + e.to.bottom]>>

\* the tests of lines 888-892 without the one on the list item: the fault C23
\* excludes.
SkippedTargetOnly(e) ==
  \/ ~e.located
  \/ e.to.bottom < 0 \/ e.to.top > INNER_HEIGHT

\* the tests of lines 888-892
Skipped(e) ==
  \/ ~e.located
  \/ e.from.bottom < 0 \/ e.from.top > INNER_HEIGHT
  \/ e.to.bottom < 0 \/ e.to.top > INNER_HEIGHT

\* entries.forEach of lines 886-914, from entry i on
RECURSIVE DrawFrom(_, _)
DrawFrom(i, entries) ==
  IF i > Len(entries) THEN <<>>
  ELSE (IF Skipped(entries[i]) THEN <<>> ELSE Shapes(i, entries[i]))
         \o DrawFrom(i + 1, entries)

\* drawArrows that keeps the children of the svg: the fault C24 excludes.
drawArrowsKeepsChildren(svg, entries) == svg \o DrawFrom(1, entries)

\* drawArrows(entries) (lines 879-915) on a document that holds the svg
drawArrows(svg, entries) == DrawFrom(1, entries)

\* inputs: rectangles above, at the upper edge of, inside, at the lower edge
\* of and below the viewport, and left of or inside it
MaxEntries == 2
MaxScrolls == 1
VSpans == {<<-2, -1>>, <<-1, 0>>, <<0, 1>>, <<2, 3>>, <<3, 4>>}
HSpans == {<<-3, -1>>, <<0, 1>>}
Rect(v, h) == [top |-> v[1], bottom |-> v[2], left |-> h[1], right |-> h[2]]
ItemRects == {Rect(v, <<1, 2>>) : v \in VSpans}
LineRects == {Rect(v, h) : v \in VSpans, h \in HSpans}
Entries ==
  {[from |-> f, located |-> TRUE, to |-> t] : f \in ItemRects, t \in LineRects}
    \cup {[from |-> f, located |-> FALSE, to |-> NoRect] : f \in ItemRects}
Shift(r, dy) == [r EXCEPT !.top = @ + dy, !.bottom = @ + dy]

\* ------------------------------------------------- parseMarkdownTranscript
\* The text is the list of its lines (joined by newlines): "h" a line
\* "### <header>", "b" an empty line, "t" a line of content, "d" a
\* <details> block with its JSON, "s" a line "---", "f" the line "*Input: ...".
\* Title, metadata, role, model and token counts do not bear on the contents
\* and are left out.
NoTranscript == [pc |-> "idle", lines |-> <<>>, messages |-> <<>>]
LineKinds == {"h", "b", "t", "d", "s", "f"}
Terminators == {"h", "s", "f"}

\* String.prototype.trim on a content: empty lines at both ends go
RECURSIVE TrimLeft(_)
TrimLeft(ls) == IF ls # <<>> /\ Head(ls) = "b" THEN TrimLeft(Tail(ls)) ELSE ls
RECURSIVE TrimRight(_)
TrimRight(ls) ==
  IF ls # <<>> /\ ls[Len(ls)] = "b" THEN TrimRight(SubSeq(ls, 1, Len(ls) - 1)) ELSE ls
Trim(ls) == TrimRight(TrimLeft(ls))

\* content.replace(detailsMatch[0], "").trim(): the first details block goes
WithoutDetails(ls) ==
  LET at == {k \in DOMAIN ls : ls[k] = "d"}
      first == CHOOSE k \in at : \A m \in at : k <= m
  IN  IF at = {} THEN ls
      ELSE Trim(SubSeq(ls, 1, first - 1) \o SubSeq(ls, first + 1, Len(ls)))

\* The lookahead (?=\n### |\n---|\n\*Input:) after a content that starts at
\* line from: the first line j > from that starts a header, a separator or
\* the footer; 0 if there is none.
NextTerminator(lines, from) ==
  LET js == {j \in DOMAIN lines : j > from /\ lines[j] \in Terminators}
  IN  IF js = {} THEN 0 ELSE CHOOSE j \in js : \A m \in js : j <= m

\* msgRegex.exec in the while loop (lines 42-72), from line k on: a header
\* line, an empty line, and the shortest content that a terminator follows.
RECURSIVE ExecFrom(_, _)
ExecFrom(lines, k) ==
  LET starts == {i \in DOMAIN lines :
                   /\ i >= k /\ lines[i] = "h"
                   /\ i + 2 <= Len(lines) /\ lines[i + 1] = "b"
                   /\ NextTerminator(lines, i + 2) # 0}
  IN  IF starts = {} THEN <<>>
      ELSE LET i == CHOOSE x \in starts : \A y \in starts : x <= y
               j == NextTerminator(lines, i + 2)
               content == Trim(SubSeq(lines, i + 2, j - 1))
           IN  <<[header |-> i, content |-> WithoutDetails(content),
                  raw |-> \E x \in DOMAIN content : content[x] = "d"]>>
                 \o ExecFrom(lines, j)

\* parseMarkdownTranscript(text).messages (lines 7-91 of the test file)
parseMarkdownTranscript(lines) == ExecFrom(lines, 1)

MaxLines == 6
Transcripts == UNION {[1..n -> LineKinds] : n \in 0..MaxLines}

\* ------------------------------------------- findLineElement from inside
\* The document is the sequence of its elements in document order.  An
\* element carries the attributes the lookups read (<<>> and 0: absent) and
\* `inside`, the index of the earlier element it is a descendant of (0: of
\* none of the listed ones).  Strings are sequences of characters.
NoLocate == [pc |-> "idle", doc |-> <<>>, file_path |-> <<>>, line |-> 0,
             lineEl |-> 0, target |-> 0]

EndsWith(value, suffix) ==
  /\ Len(suffix) <= Len(value)
  /\ SubSeq(value, Len(value) - Len(suffix) + 1, Len(value)) = suffix

DigitChars == <<"0", "1", "2", "3", "4", "5", "6", "7", "8", "9">>

RECURSIVE Decimal(_)
Decimal(n) ==
  IF n < 10 THEN <<DigitChars[n + 1]>>
  ELSE Decimal(n \div 10) \o <<DigitChars[(n % 10) + 1]>>

IsDigit(c) == c \in Range(DigitChars)

WordChar(c) == IsDigit(c) \/ c \in {"R", "L", "_"}

\* document.querySelector / element.querySelector: the first in document order
QuerySelector(among) ==
  IF among = {} THEN 0 ELSE CHOOSE i \in among : \A j \in among : i <= j

Descendants(doc, el) == {j \in DOMAIN doc : doc[j].inside = el}

findFileContainer(doc, filePath) ==
  IF filePath = <<>> THEN 0
  ELSE LET byPath     == QuerySelector({i \in DOMAIN doc : doc[i].path = filePath})
           byFilePath == QuerySelector({i \in DOMAIN doc : doc[i].fpath = filePath})
           byFileName == QuerySelector({i \in DOMAIN doc : doc[i].fname = filePath})
           direct     == IF byPath # 0 THEN byPath
                         ELSE IF byFilePath # 0 THEN byFilePath ELSE byFileName
           candidates == {i \in DOMAIN doc : doc[i].fpath # <<>> \/ doc[i].fname # <<>>}
           value(i)   == IF doc[i].fpath # <<>> THEN doc[i].fpath ELSE doc[i].fname
       IN  IF direct # 0 THEN direct
           ELSE QuerySelector({i \in candidates :
                  value(i) = filePath \/ EndsWith(value(i), <<"/">> \o filePath)})

\* anchor.match(/R(\d+)\b/): the digits of the first R that is followed by a
\* run of digits ending at a word boundary, <<>> when there is none
DigitRun(anchor, from) ==
  CHOOSE k \in 0..Len(anchor) :
    /\ \A j \in (from + 1)..(from + k) : j <= Len(anchor) /\ IsDigit(anchor[j])
    /\ from + k + 1 <= Len(anchor) => ~IsDigit(anchor[from + k + 1])
    /\ from + k <= Len(anchor)

MatchesAt(anchor, i) ==
  /\ anchor[i] = "R"
  /\ DigitRun(anchor, i) >= 1
  /\ LET end == i + DigitRun(anchor, i)
     IN  end = Len(anchor) \/ ~WordChar(anchor[end + 1])

MatchR(anchor) ==
  LET at == QuerySelector({i \in DOMAIN anchor : MatchesAt(anchor, i)})
  IN  IF at = 0 THEN <<>> ELSE SubSeq(anchor, at + 1, at + DigitRun(anchor, at))

findLineByAnchorNumber(doc, lineNumber) ==
  QuerySelector({i \in DOMAIN doc :
     doc[i].anchor # <<>> /\ MatchR(doc[i].anchor) = Decimal(lineNumber)})

NumberIn(doc, among, lineNumber) ==
  QuerySelector({i \in among : doc[i].number = lineNumber})

AnchorIn(doc, among, lineNumber) ==
  QuerySelector({i \in among : EndsWith(doc[i].anchor, <<"R">> \o Decimal(lineNumber))})

findLineElementGlobalFirst(doc, filePath, lineNumber) ==
  IF lineNumber = 0 THEN 0
  ELSE LET fileEl       == findFileContainer(doc, filePath)
           globalNumber == NumberIn(doc, DOMAIN doc, lineNumber)
           directAnchor == AnchorIn(doc, DOMAIN doc, lineNumber)
       IN  IF globalNumber # 0 THEN globalNumber
           ELSE IF directAnchor # 0 THEN directAnchor
           ELSE IF fileEl # 0 /\ NumberIn(doc, Descendants(doc, fileEl), lineNumber) # 0
                THEN NumberIn(doc, Descendants(doc, fileEl), lineNumber)
           ELSE findLineByAnchorNumber(doc, lineNumber)

findLineElement(doc, filePath, lineNumber) ==
  IF lineNumber = 0 THEN 0
  ELSE LET fileEl       == findFileContainer(doc, filePath)
           scope        == IF fileEl = 0 THEN {} ELSE Descendants(doc, fileEl)
           byNumber     == NumberIn(doc, scope, lineNumber)
           byAnchor     == AnchorIn(doc, scope, lineNumber)
           globalNumber == NumberIn(doc, DOMAIN doc, lineNumber)
           directAnchor == AnchorIn(doc, DOMAIN doc, lineNumber)
       IN  IF byNumber # 0 THEN byNumber
           ELSE IF byAnchor # 0 THEN byAnchor
           ELSE IF globalNumber # 0 THEN globalNumber
           ELSE IF directAnchor # 0 THEN directAnchor
           ELSE findLineByAnchorNumber(doc, lineNumber)

scrollToEditLineOnly(doc, filePath, startLine) ==
  IF filePath = <<>> \/ startLine = 0 THEN 0
  ELSE findLineElement(doc, filePath, startLine)

\* scrollToEdit: the element scrolled into view, 0 when none is
scrollToEdit(doc, filePath, startLine) ==
  IF filePath = <<>> \/ startLine = 0 THEN 0
  ELSE LET lineEl == findLineElement(doc, filePath, startLine)
       IN  IF lineEl # 0 THEN lineEl ELSE findFileContainer(doc, filePath)

MaxNodes == 3
MaxFiles == 2
FilePath == <<"a">>
PathValues == {<<>>, <<"a">>, <<"b", "/", "a">>, <<"b", "a">>}
LineAnchors == {<<>>, <<"R", "1">>, <<"R", "1", "1">>, <<"R", "1", "-">>,
                <<"R", "2", "-", "R", "1">>}
FileNodes == [path : PathValues, fpath : PathValues, fname : PathValues,
              number : {0}, anchor : {<<>>}, inside : {0}]
ScopeNodes == [path : {<<>>, FilePath}, fpath : {<<>>, <<"b", "/", "a">>}, fname : {<<>>},
               number : {0}, anchor : {<<>>}, inside : {0}]
LineNodes == {n \in [path : {<<>>}, fpath : {<<>>}, fname : {<<>>},
                     number : {0, 1, 2}, anchor : LineAnchors, inside : 0..(MaxNodes - 1)] :
                n.number # 0 \/ n.anchor # <<>>}
\* an element is inside an earlier element that is itself inside none
WellNested(doc) ==
  \A i \in DOMAIN doc :
    doc[i].inside # 0 => doc[i].inside < i /\ doc[doc[i].inside].inside = 0
FileDocs == UNION {[1..n -> FileNodes] : n \in 0..MaxFiles}
LineDocs ==
  {doc \in UNION {[1..n -> ScopeNodes \cup LineNodes] : n \in 0..MaxNodes} : WellNested(doc)}
Lines == {0, 1}

\* ---------------------------------------- renderPanel: the anchors of a row
\* A mapping here is [edits, hunks, edit_hunks]; the messages are the two of
\* MessageIds, without timestamps, so that the rows stay in encounter order.
\* 0 stands for a field that is absent or 0: JavaScript reads both as false.
NoAnchors == [pc |-> "idle", mapping |-> [edits |-> <<>>, hunks |-> <<>>, edit_hunks |-> <<>>],
              rows |-> <<>>, messagesByHunk |-> <<>>]

NoHunk == [id |-> 0, file_path |-> "", new_start |-> 0]

MessageIds == <<1, 2>>

RECURSIVE Pick(_, _, _)
Pick(seq, want, i) ==
  IF i > Len(seq) THEN <<>>
  ELSE (IF seq[i] \in want THEN <<seq[i]>> ELSE <<>>) \o Pick(seq, want, i + 1)

\* hunksById: a later hunk of the same id replaces the earlier one
HasHunk(hunks, id) == \E i \in DOMAIN hunks : hunks[i].id = id

HunksById(hunks, id) ==
  hunks[CHOOSE i \in DOMAIN hunks :
          /\ hunks[i].id = id
          /\ \A j \in DOMAIN hunks : hunks[j].id = id => j <= i]

\* hunkIdsByEdit.get(edit.id) || []
HunkIdsByEdit(links, editId) ==
  LET mine == Pick(links, {l \in Range(links) : l.edit_id = editId}, 1)
  IN  [i \in DOMAIN mine |-> mine[i].hunk_id]

EditKey(edit) ==
  IF edit.user_message_id # 0 THEN edit.user_message_id ELSE edit.message_id

\* editsByMessage.get(msg.id) || []
EditsByMessage(edits, msgId) ==
  Pick(edits, {e \in Range(edits) : EditKey(e) # 0 /\ EditKey(e) = msgId}, 1)

RECURSIVE HunkAnchors(_, _, _, _)
HunkAnchors(edit, hunkIds, hunks, i) ==
  IF i > Len(hunkIds) THEN <<>>
  ELSE (IF ~HasHunk(hunks, hunkIds[i]) THEN <<>>
        ELSE LET hunk == HunksById(hunks, hunkIds[i])
             IN  <<[file_path |-> hunk.file_path, line |-> hunk.new_start,
                    edit |-> edit, hunk |-> hunk]>>)
       \o HunkAnchors(edit, hunkIds, hunks, i + 1)

EditAnchorsAlways(mapping, edit) ==
  LET hunkIds == HunkIdsByEdit(mapping.edit_hunks, edit.id)
  IN  IF Len(hunkIds) = 0
      THEN <<[file_path |-> edit.file_path, line |-> edit.start_line,
              edit |-> edit, hunk |-> NoHunk]>>
      ELSE HunkAnchors(edit, hunkIds, mapping.hunks, 1)

\* the body of edits.forEach
EditAnchors(mapping, edit) ==
  LET hunkIds == HunkIdsByEdit(mapping.edit_hunks, edit.id)
  IN  IF Len(hunkIds) = 0
      THEN IF edit.start_line # 0
           THEN <<[file_path |-> edit.file_path, line |-> edit.start_line,
                   edit |-> edit, hunk |-> NoHunk]>>
           ELSE <<>>
      ELSE HunkAnchors(edit, hunkIds, mapping.hunks, 1)

RECURSIVE RowAnchors(_, _, _)
RowAnchors(mapping, edits, i) ==
  IF i > Len(edits) THEN <<>>
  ELSE EditAnchors(mapping, edits[i]) \o RowAnchors(mapping, edits, i + 1)

Rows(mapping) ==
  [m \in DOMAIN MessageIds |->
     LET edits == EditsByMessage(mapping.edits, MessageIds[m])
     IN  [msg |-> MessageIds[m], edits |-> edits,
          anchors |-> RowAnchors(mapping, edits, 1)]]

\* edits.find((e) => e.id === link.edit_id): the first edit of that id
HasEdit(edits, id) == \E i \in DOMAIN edits : edits[i].id = id

FindEdit(edits, id) ==
  edits[CHOOSE i \in DOMAIN edits :
          /\ edits[i].id = id
          /\ \A j \in DOMAIN edits : edits[j].id = id => i <= j]

HasMessage(id) == id \in Range(MessageIds)

\* what one link adds to messagesByHunk.get(hunkId)
LinkMessageAnyHunk(mapping, link, hunkId) ==
  IF ~HasEdit(mapping.edits, link.edit_id) THEN <<>>
  ELSE LET msgId == EditKey(FindEdit(mapping.edits, link.edit_id))
       IN  IF msgId = 0 \/ ~HasMessage(msgId) THEN <<>> ELSE <<msgId>>

LinkMessage(mapping, link, hunkId) ==
  IF link.hunk_id # hunkId \/ ~HasHunk(mapping.hunks, link.hunk_id) THEN <<>>
  ELSE IF ~HasEdit(mapping.edits, link.edit_id) THEN <<>>
  ELSE LET msgId == EditKey(FindEdit(mapping.edits, link.edit_id))
       IN  IF msgId = 0 \/ ~HasMessage(msgId) THEN <<>> ELSE <<msgId>>

RECURSIVE MessagesFrom(_, _, _)
MessagesFrom(mapping, hunkId, i) ==
  IF i > Len(mapping.edit_hunks) THEN <<>>
  ELSE LinkMessage(mapping, mapping.edit_hunks[i], hunkId)
         \o MessagesFrom(mapping, hunkId, i + 1)

\* messagesByHunk.get(hunkId) || [], the messages by their ids
HunkIds == {1, 2}
MessagesByHunk(mapping) == [h \in HunkIds |-> MessagesFrom(mapping, h, 1)]

MaxEdits == 2
MaxHunks == 2
MaxLinks == 2
EditRecs == [id : {1, 2}, file_path : {"a"}, start_line : {0, 1},
             user_message_id : {0, 2}, message_id : {0, 1, 3}]
HunkRecs == [id : HunkIds, file_path : {"b"}, new_start : {0, 2}]
LinkRecs == [edit_id : {1, 2}, hunk_id : HunkIds]
AnchorMappings ==
  [edits : UNION {[1..n -> EditRecs] : n \in 0..MaxEdits},
   hunks : UNION {[1..n -> HunkRecs] : n \in 0..MaxHunks},
   edit_hunks : UNION {[1..n -> LinkRecs] : n \in 0..MaxLinks}]

\* --------------------------------------------------- renderPanel from inside
\* A message is its id and its timestamp; timestamp 0 is a missing (falsy)
\* one, and localeCompare orders the others as the numbers are ordered.
NoRender == [pc |-> "idle", input |-> <<>>, messages |-> <<>>, rows |-> <<>>]

localeCompare(a, b) == a - b

\* messagesById (lines 664-665) and Array.from(messagesById.values()): a
\* Map keeps the position of the first set of a key and the value of the last.
RECURSIVE MessagesById(_)
MessagesById(input) ==
  IF input = <<>> THEN <<>>
  ELSE LET before == MessagesById(SubSeq(input, 1, Len(input) - 1))
           msg == input[Len(input)]
       IN  IF \E i \in DOMAIN before : before[i].id = msg.id
             THEN [i \in DOMAIN before |-> IF before[i].id = msg.id THEN msg ELSE before[i]]
             ELSE Append(before, msg)

\* indexById.get(id) || 0
IndexById(messages, id) ==
  IF \E i \in DOMAIN messages : messages[i].id = id
    THEN (CHOOSE i \in DOMAIN messages : messages[i].id = id) - 1
    ELSE 0

\* the comparator of messages.sort (lines 702-709)
CompareMessages(messages, a, b) ==
  IF a.ts # 0 /\ b.ts # 0 THEN localeCompare(a.ts, b.ts)
  ELSE IF a.ts # 0 THEN -1
  ELSE IF b.ts # 0 THEN 1
  ELSE IndexById(messages, a.id) - IndexById(messages, b.id)

\* the comparator of rows.sort (lines 738-742)
CompareRows(a, b) == localeCompare(a.ts, b.ts)

\* Array.prototype.sort is stable: an element goes behind the elements that
\* do not compare greater than it.  which is the comparator.
Compare(which, messages, a, b) ==
  IF which = "messages" THEN CompareMessages(messages, a, b) ELSE CompareRows(a, b)

RECURSIVE Sort(_, _, _)
Sort(which, messages, seq) ==
  IF Len(seq) <= 1 THEN seq
  ELSE LET sorted == Sort(which, messages, SubSeq(seq, 1, Len(seq) - 1))
           x == seq[Len(seq)]
           keep == {i \in DOMAIN sorted : Compare(which, messages, sorted[i], x) <= 0}
           at == IF keep = {} THEN 0 ELSE CHOOSE i \in keep : \A j \in keep : j <= i
       IN  SubSeq(sorted, 1, at) \o <<x>> \o SubSeq(sorted, at + 1, Len(sorted))

\* renderPanel with rows left in the order of messages.sort: the fault C18
\* excludes.
RenderRowsUnsorted(R) == [R EXCEPT !.pc = "rendered", !.rows = R.messages]

\* lines 711-742, 759-796: one row per message, sorted and appended in order
RenderRows(R) ==
  [R EXCEPT !.pc = "rendered", !.rows = Sort("rows", R.messages, R.messages)]

\* lines 664-709
SortMessages(R, input) ==
  LET messages == MessagesById(input)
  IN  [R EXCEPT !.pc = "sorted", !.input = input,
                !.messages = Sort("messages", messages, messages)]

\* ------------------------------------------------------------ environment
\* What a specification lets the environment do: E.inits bounds the init
\* invocations; E.locs, E.containers, E.sidebars and E.modes are the pages
\* it renders; E.urls[c] and E.proxies[c] are the references that the
\* views, the thread and the session storage of conversation c can hold.
SidebarKinds == {"absent", "apart", "branch"}
NavModes == {"keep", "swap", "body"}

\* What the locators find in the view of conversation c.
ViewMaps(E, c) == IF c = NoConv THEN {NoUrl} ELSE E.urls[c] \cup {NoUrl}
ViewProxies(E, c) == IF c = NoConv THEN {NoUrl} ELSE E.proxies[c] \cup {NoUrl}

\* What the Conversation Fetcher answers: a throw of fetch, a non-ok
\* response, or a page in which the locator finds url (or nothing).
ConvAnswers(urls) ==
  {[kind |-> "throw", url |-> NoUrl], [kind |-> "notOk", url |-> NoUrl]}
    \cup {[kind |-> "ok", url |-> u] : u \in urls \cup {NoUrl}}

\* Session storage outlives the script: an entry may be there at load.
Stored(refs) ==
  {[c \in Convs |-> IF c = u.owner THEN u ELSE NoUrl] :
     u \in (UNION {refs[c] : c \in Convs}) \cup {NoUrl}}

InitBut(E) ==
  /\ loc \in E.locs
  /\ container \in E.containers
  /\ sidebar \in E.sidebars
  /\ layouts = <<>>
  /\ overlays = [arrows |-> FALSE, preview |-> FALSE]
  /\ panelEl = 0
  /\ attachObserver = 0
  /\ obsLive = FALSE
  /\ mapCache \in Stored(E.urls)
  /\ proxyCache \in Stored(E.proxies)
  /\ currentAnchors = NoConv
  /\ body = <<>>
  /\ listeners = 0
  /\ raf = 0
  /\ chips = NoChips
  /\ inits = 0
  /\ runs = <<>>
  /\ ended = <<>>
  /\ lastResolve = <<>>
  /\ cacheLog = <<>>
  /\ lastAttach = <<>>
  /\ framePasses = 0

\* The state when the script has been loaded (lines 5-9).
InitIn(E) ==
  /\ InitBut(E)
  /\ proxyBase = DEFAULT_PROXY_BASE
  /\ fm = NoFetch
  /\ rp = NoRender
  /\ uc = NoUrlCall
  /\ sel = NoSelect
  /\ da = NoDraw
  /\ md = NoTranscript
  /\ an = NoAnchors
  /\ lo = NoLocate

\* ----------------------------------------------------------------- actions
\* init() at the end of the script (line 976)
Load(E) ==
  /\ inits = 0
  /\ \E viewP \in ViewProxies(E, IF loc.files THEN loc.pr ELSE NoConv),
        viewM \in ViewMaps(E, IF loc.files THEN loc.pr ELSE NoConv) :
       Becomes(InvokeInit(Cur, viewP, viewM))

\* The page the navigation renders: "keep" leaves the document as it is,
\* "swap" replaces the content inside the body, "body" replaces the body
\* element (the observed body and the svg appended to it leave the document).
Rendered(S, l2, mode, c2, s2) ==
  IF mode = "keep" THEN [S EXCEPT !.loc = l2]
  ELSE IF mode = "swap"
    THEN [S EXCEPT !.loc = l2, !.container = c2, !.sidebar = s2, !.layouts = <<>>,
                   !.chips.chip = FALSE, !.chips.pointer = "away"]
  ELSE [S EXCEPT !.loc = l2, !.container = c2, !.sidebar = s2, !.layouts = <<>>,
                 !.overlays.arrows = FALSE, !.obsLive = FALSE,
                 !.chips.chip = FALSE, !.chips.pointer = "away",
                 !.chips.previewIn = FALSE]

\* turbo:render / pjax:end (lines 977-978): init() runs in the event handler;
\* the mutation records of the content swap and of init's own changes reach
\* an observer on the document's body once the handler has returned.
Navigate(E) ==
  /\ inits \in 1..(E.inits - 1)
  /\ \E l2 \in E.locs, mode \in E.modes :
     \E c2 \in (IF mode = "keep" THEN {container} ELSE E.containers),
        s2 \in (IF mode = "keep" THEN {sidebar} ELSE E.sidebars),
        viewP \in ViewProxies(E, IF l2.files THEN l2.pr ELSE NoConv),
        viewM \in ViewMaps(E, IF l2.files THEN l2.pr ELSE NoConv) :
       Becomes(ObserverCallback(InvokeInit(Rendered(Cur, l2, mode, c2, s2), viewP, viewM)))

\* A structural mutation of the document by the page: the primary region or
\* the sidebar appears, the page re-renders its content, or something else
\* changes.
Mutated(S, kind, c2, s2) ==
  IF kind = "container" THEN [S EXCEPT !.container = TRUE]
  ELSE IF kind = "sidebar" THEN [S EXCEPT !.sidebar = s2]
  ELSE IF kind = "rerender"
    THEN [S EXCEPT !.container = c2, !.sidebar = s2, !.layouts = <<>>,
                   !.chips.chip = FALSE, !.chips.pointer = "away"]
  ELSE S

\* The mutation and the observer callback it triggers (lines 549-554).
Mutate(E) ==
  /\ inits >= 1
  /\ \E kind \in {"container", "sidebar", "rerender", "other"} :
     \E c2 \in (IF kind = "rerender" THEN E.containers ELSE {container}),
        s2 \in (IF kind = "rerender" THEN E.sidebars
                ELSE IF kind = "sidebar" THEN E.sidebars \ {"absent"} ELSE {sidebar}) :
       /\ kind = "container" => ~container
       /\ kind = "sidebar" => sidebar = "absent"
       /\ Becomes(ObserverCallback(Mutated(Cur, kind, c2, s2)))

\* The Conversation Fetcher answers resolveProxyUrl.
ProxyFetchDone(E, r) ==
  /\ runs[r].pc = "proxyFetch"
  /\ \E a \in ConvAnswers(E.proxies[runs[r].info]), viewM \in ViewMaps(E, loc.pr) :
       /\ a.kind = "throw" => viewM = NoUrl
       /\ Becomes(IF a.kind = "throw" THEN OuterCatch(Cur, r)
                  ELSE ResolveProxyRest(Cur, r, a.url, viewM))

\* The Conversation Fetcher answers resolveMappingUrl.
ConvFetchDone(E, r) ==
  /\ runs[r].pc \in {"convFetch1", "convFetch2"}
  /\ \E a \in ConvAnswers(E.urls[runs[r].info]) :
       Becomes(IF a.kind = "throw" THEN OuterCatch(Cur, r)
               ELSE ResolveMappingRest(Cur, r, a.url, runs[r].pc = "convFetch2"))

\* The catch handler without its removeItem: the fault C1 excludes.
CatchFirstKeepsEntry(S, r, view) ==
  LET info == parsePrPath(S) IN
  IF info = NoConv THEN OuterCatch(S, r)
  ELSE ResolveMappingSync([S EXCEPT !.runs[r].reresolves = @ + 1], r, view, TRUE)

\* init's catch of the first rejection of fetchMapping (lines 948-961)
CatchFirst(S, r, view) ==
  LET info == parsePrPath(S) IN
  IF info = NoConv THEN OuterCatch(S, r)
  ELSE ResolveMappingSync(
         [RemoveMapCache(S, info, "retrievalFailed", S.runs[r].mappingUrl)
            EXCEPT !.runs[r].reresolves = @ + 1],
         r, view, TRUE)

\* fetchMapping settles: with a Mapping ("ok") or with a rejection.
FetchMappingDone(E, r) ==
  /\ runs[r].pc \in {"fetch1", "fetch2"}
  /\ \E out \in Outcomes, view \in ViewMaps(E, loc.pr) :
       /\ out = "ok" => raf < MaxRaf
       /\ (out # "ok" /\ runs[r].pc = "fetch1") \/ view = NoUrl
       /\ LET S == [Cur EXCEPT !.runs[r].failures = IF out = "ok" THEN @ ELSE @ + 1]
          IN  Becomes(IF out = "ok" THEN renderPanel(S, r)
                      ELSE IF runs[r].pc = "fetch2" THEN OuterCatch(S, r)
                      ELSE CatchFirst(S, r, view))

\* A scroll or resize event: every registered listener requests a frame
\* callback (lines 966-967).
ScrollOrResize ==
  /\ listeners > 0
  /\ raf + listeners <= MaxRaf
  /\ Becomes([Cur EXCEPT !.raf = @ + listeners])

\* renderHunkChips (lines 809-835) for a mapping with a hunk linked to a
\* message: the old chips go, and the chip is appended where the line of the
\* hunk is found, in the diff of a files view.
renderHunkChips(S) ==
  [S EXCEPT !.chips.calls = FALSE,
            !.chips.chip = S.loc.files /\ S.container,
            !.chips.pointer = "away"]

\* A rendering frame runs the pending callbacks; each calls drawArrows, which
\* returns at once when the svg is not in the document (lines 880-881), or
\* renderHunkChips.
Frame ==
  /\ raf > 0
  /\ LET S == [Cur EXCEPT !.raf = 0, !.framePasses = IF overlays.arrows THEN raf ELSE 0]
     IN  Becomes(IF chips.calls THEN renderHunkChips(S) ELSE S)

\* showPreview(event, messages) (lines 846-856)
showPreview(S) == IF ~S.overlays.preview THEN S ELSE [S EXCEPT !.chips.shown = TRUE]

\* hidePreview() (lines 868-871)
hidePreview(S) == IF ~S.overlays.preview THEN S ELSE [S EXCEPT !.chips.shown = FALSE]

\* mouseenter and mouseleave on the chip (lines 818-824)
PointerEnter ==
  /\ chips.chip
  /\ chips.pointer = "away"
  /\ Becomes(showPreview([Cur EXCEPT !.chips.pointer = "over"]))

PointerLeave ==
  /\ chips.chip
  /\ chips.pointer = "over"
  /\ Becomes(hidePreview([Cur EXCEPT !.chips.pointer = "away"]))

\* The inputs of one fetchMapping call.
MaxText == 3                   \* characters of a retrieved text
Chars == {" ", "<", "{", "1", "}"}
Paths == {<<"gm", "a">>, <<"v", "a">>, <<"g", "a">>}
KeyTexts == {[n |-> n, eq |-> e, id |-> i] : n \in {42, 43, 44}, e \in {0, 1}, i \in {1, 2}}
Refs == [host : MappingHosts, path : Paths, hash : KeyTexts \cup {NoKey}]

TextBodies ==
  {Chs(t) : t \in UNION {[1..n -> Chars] : n \in 0..MaxText}}
    \cup {Chs(<<" ">> \o Stringify(m)) : m \in Mappings}
Plains ==
  {Gzip(Stringify(m)) : m \in Mappings} \cup {Zbs(Stringify("1")), Gzip(<<"<">>)}
Sealed == {Nonce(a) \o Seal(k, a, x) : k \in {1, 2}, a \in {1, 2}, x \in Plains}
Cut == {SubSeq(Payload(1, 1, "1"), 1, n) : n \in {1, 11, 12, 13, 27, 28, 31}}
Tampered == {Nonce(2) \o Seal(1, 1, Gzip(Stringify("1")))}
Bodies == TextBodies \cup Sealed \cup Cut \cup Tampered

Responses == [kind : {"response"}, ok : BOOLEAN, buffer : Bodies]
Failure(kind) == [kind |-> kind, ok |-> FALSE, buffer |-> <<>>]
DirectOutcomes == Responses \cup {Failure("throw"), Failure("throwNoChannel")}
IndirectOutcomes ==
  Responses \cup {Failure("lastError"), Failure("NoResponse"), Failure("ResponseError")}

baseVars ==
  <<loc, container, sidebar, layouts, overlays, panelEl, attachObserver, obsLive,
    proxyBase, mapCache, proxyCache, currentAnchors, body, listeners, raf, chips, inits,
    runs, ended, lastResolve, cacheLog, lastAttach, framePasses>>

\* init calls fetchMapping(mappingUrl) (lines 946, 954)
FetchMappingCall ==
  /\ fm.pc = "idle"
  /\ \E u \in Refs : fm' = FetchCall(fm, u, proxyBase)
  /\ UNCHANGED <<baseVars, rp, uc, sel, da, md, an, lo>>

\* fetch(url) of fetchMappingResource settles (lines 231-257): with a
\* response of any status, or by throwing; then the request goes to the
\* background script when chrome.runtime.sendMessage exists.
DirectDone ==
  /\ fm.pc = "direct"
  /\ \E out \in DirectOutcomes : fm' = Resolved(DirectSettled(fm, out))
  /\ UNCHANGED <<baseVars, rp, uc, sel, da, md, an, lo>>

\* The callback of chrome.runtime.sendMessage (lines 236-250) with what the
\* background listener sent (lines 981-1001): lastError, no response, an
\* error, or status and body.
IndirectDone ==
  /\ fm.pc = "indirect"
  /\ \E out \in IndirectOutcomes : fm' = Resolved(IndirectSettled(fm, out))
  /\ UNCHANGED <<baseVars, rp, uc, sel, da, md, an, lo>>

\* The inputs of one renderPanel call.
MaxMsgs == 3                   \* messages of a Mapping
MaxTs == 2                     \* distinct timestamps
Msgs == [id : 1..MaxMsgs, ts : 0..MaxTs]
MessageLists == UNION {[1..n -> Msgs] : n \in 0..MaxMsgs}

\* init calls renderPanel(panelEl, mapping, prBase) (line 962)
RenderPanelCall ==
  /\ rp.pc = "idle"
  /\ \E input \in MessageLists : rp' = SortMessages(rp, input)
  /\ UNCHANGED <<baseVars, fm, uc, sel, da, md, an, lo>>

RenderPanelRows ==
  /\ rp.pc = "sorted"
  /\ rp' = RenderRows(rp)
  /\ UNCHANGED <<baseVars, fm, uc, sel, da, md, an, lo>>

\* ---------------------------------------------------------- specifications
\* Resolution, caching and retrieval of the mapping, on a document that
\* stays as it is; no proxy reference exists.
EnvResolve ==
  [inits |-> MaxInits, locs |-> Locs, containers |-> BOOLEAN, sidebars |-> {"absent"},
   modes |-> {"keep"}, urls |-> [c \in Convs |-> UrlsOf(c)], proxies |-> [c \in Convs |-> {}]]

Init == InitIn(EnvResolve)

Next ==
  \/ Load(EnvResolve)
  \/ Navigate(EnvResolve)
  \/ \E r \in DOMAIN runs : ProxyFetchDone(EnvResolve, r)
  \/ \E r \in DOMAIN runs : ConvFetchDone(EnvResolve, r)
  \/ \E r \in DOMAIN runs : FetchMappingDone(EnvResolve, r)

Spec == Init /\ [][Next]_vars

\* The document side: every page shape, navigation mode and mutation; no
\* reference exists, so every run ends in the empty or the error state.
EnvDom ==
  [inits |-> MaxDomInits,
   locs |-> {[pr |-> "X", files |-> TRUE], [pr |-> "X", files |-> FALSE]},
   containers |-> BOOLEAN, sidebars |-> SidebarKinds, modes |-> NavModes,
   urls |-> [c \in Convs |-> {}], proxies |-> [c \in Convs |-> {}]]

InitDom == InitIn(EnvDom)

NextDom ==
  \/ Load(EnvDom)
  \/ Navigate(EnvDom)
  \/ Mutate(EnvDom)
  \/ \E r \in DOMAIN runs : ProxyFetchDone(EnvDom, r)
  \/ \E r \in DOMAIN runs : ConvFetchDone(EnvDom, r)

SpecDom == InitDom /\ [][NextDom]_vars

\* Proxy resolution: both conversations have proxy references, in the view,
\* in the thread and in the session storage; no mapping reference exists.
EnvProxy ==
  [inits |-> MaxInits,
   locs |-> {[pr |-> "X", files |-> TRUE], [pr |-> "Y", files |-> TRUE]},
   containers |-> {TRUE}, sidebars |-> {"absent"}, modes |-> {"keep"},
   urls |-> [c \in Convs |-> {}], proxies |-> [c \in Convs |-> ProxiesOf(c)]]

InitProxy == InitIn(EnvProxy)

NextProxy ==
  \/ Load(EnvProxy)
  \/ Navigate(EnvProxy)
  \/ \E r \in DOMAIN runs : ProxyFetchDone(EnvProxy, r)
  \/ \E r \in DOMAIN runs : ConvFetchDone(EnvProxy, r)

SpecProxy == InitProxy /\ [][NextProxy]_vars

\* Proxy base: two conversations with a reference each, a proxy reference
\* for X only.
EnvBase ==
  [inits |-> MaxInits,
   locs |-> {[pr |-> "X", files |-> TRUE], [pr |-> "Y", files |-> TRUE]},
   containers |-> {TRUE}, sidebars |-> {"absent"}, modes |-> {"keep"},
   urls |-> [c \in Convs |-> {[owner |-> c, kind |-> "gm", ver |-> 1]}],
   proxies |-> [c \in Convs |-> IF c = "X" THEN {[owner |-> "X", kind |-> "proxy", ver |-> 1]}
                                ELSE {}]]

InitBase == InitIn(EnvBase)

NextBase ==
  \/ Load(EnvBase)
  \/ Navigate(EnvBase)
  \/ \E r \in DOMAIN runs : ProxyFetchDone(EnvBase, r)
  \/ \E r \in DOMAIN runs : ConvFetchDone(EnvBase, r)
  \/ \E r \in DOMAIN runs : FetchMappingDone(EnvBase, r)

SpecBase == InitBase /\ [][NextBase]_vars

\* Frames: one conversation with one reference, scroll and resize events and
\* rendering frames.
EnvFrames ==
  [inits |-> MaxInits, locs |-> {[pr |-> "X", files |-> TRUE]},
   containers |-> {TRUE}, sidebars |-> {"absent"}, modes |-> {"keep"},
   urls |-> [c \in Convs |-> IF c = "X" THEN {[owner |-> "X", kind |-> "gm", ver |-> 1]} ELSE {}],
   proxies |-> [c \in Convs |-> {}]]

InitFrames == InitIn(EnvFrames)

NextFrames ==
  \/ Load(EnvFrames)
  \/ Navigate(EnvFrames)
  \/ \E r \in DOMAIN runs : ProxyFetchDone(EnvFrames, r)
  \/ \E r \in DOMAIN runs : ConvFetchDone(EnvFrames, r)
  \/ \E r \in DOMAIN runs : FetchMappingDone(EnvFrames, r)
  \/ ScrollOrResize
  \/ Frame

SpecFrames == InitFrames /\ [][NextFrames]_vars

\* One fetchMapping call, for every reference, proxy base, response and body.
EnvFetch ==
  [inits |-> 0, locs |-> {[pr |-> "X", files |-> TRUE]}, containers |-> {TRUE},
   sidebars |-> {"absent"}, modes |-> {"keep"},
   urls |-> [c \in Convs |-> {}], proxies |-> [c \in Convs |-> {}]]

InitFetch ==
  /\ InitBut(EnvFetch)
  /\ proxyBase \in {DEFAULT_PROXY_BASE, [owner |-> "X", kind |-> "proxy", ver |-> 1]}
  /\ fm = NoFetch
  /\ rp = NoRender
  /\ uc = NoUrlCall
  /\ sel = NoSelect
  /\ da = NoDraw
  /\ md = NoTranscript
  /\ an = NoAnchors
  /\ lo = NoLocate

NextFetch ==
  \/ FetchMappingCall
  \/ DirectDone
  \/ IndirectDone

SpecFetch == InitFetch /\ [][NextFetch]_vars

\* One renderPanel call, for every list of messages.
\* one call of sanitizeMappingUrl, or of normalizeMappingUrl and then of
\* normalizeMappingUrl on what it returned
SanitizeCall ==
  /\ uc.pc = "idle"
  /\ \E pre \in Pres, core \in Cores, post \in Posts :
       uc' = [NoUrlCall EXCEPT !.pc = "sanitized", !.fn = "sanitize",
                               !.pre = pre, !.core = core, !.post = post,
                               !.out = sanitizeMappingUrl(pre, core, post)]
  /\ UNCHANGED <<baseVars, fm, rp, sel, da, md, an, lo>>

NormalizeCall ==
  /\ uc.pc = "idle"
  /\ \E u \in ParsedCores :
       uc' = [NoUrlCall EXCEPT !.pc = "normalized", !.fn = "normalize",
                               !.core = u, !.out = normalizeMappingUrl(u)]
  /\ UNCHANGED <<baseVars, fm, rp, sel, da, md, an, lo>>

NormalizeAgain ==
  /\ uc.pc = "normalized"
  /\ uc' = [uc EXCEPT !.pc = "again", !.again = normalizeMappingUrl(uc.out)]
  /\ UNCHANGED <<baseVars, fm, rp, sel, da, md, an, lo>>

InitUrl == InitIn(EnvFetch)

NextUrl ==
  \/ SanitizeCall
  \/ NormalizeCall
  \/ NormalizeAgain

SpecUrl == InitUrl /\ [][NextUrl]_vars

\* one call of extractMappingUrlFromElement on an element of the view
SelectCall ==
  /\ sel.pc = "idle"
  /\ \E el \in Elements : sel' = [el EXCEPT !.pc = "called"]
  /\ UNCHANGED <<baseVars, fm, rp, uc, da, md, an, lo>>

SelectDone ==
  /\ sel.pc = "called"
  /\ sel' = Select(sel)
  /\ UNCHANGED <<baseVars, fm, rp, uc, da, md, an, lo>>

InitSelect == InitIn(EnvFetch)

NextSelect ==
  \/ SelectCall
  \/ SelectDone

SpecSelect == InitSelect /\ [][NextSelect]_vars

\* renderPanel leaves the entries in currentAnchors and asks for a frame
\* (lines 803-805); each frame and each scroll or resize runs drawArrows on
\* them; scrolling the page moves the line elements.
RenderAnchors ==
  /\ da.pc = "idle"
  /\ \E es \in UNION {[1..n -> Entries] : n \in 0..MaxEntries} :
       da' = [da EXCEPT !.pc = "dirty", !.entries = es]
  /\ UNCHANGED <<baseVars, fm, rp, uc, sel, md, an, lo>>

DrawPass ==
  /\ da.pc = "dirty"
  /\ da' = [da EXCEPT !.pc = "drawn", !.svg = drawArrows(da.svg, da.entries)]
  /\ UNCHANGED <<baseVars, fm, rp, uc, sel, md, an, lo>>

ScrollPage ==
  /\ da.pc = "drawn"
  /\ da.scrolls < MaxScrolls
  /\ \E dy \in {-2, 2} :
       da' = [da EXCEPT !.pc = "dirty", !.scrolls = @ + 1,
                        !.entries = [i \in DOMAIN da.entries |->
                                       IF da.entries[i].located
                                         THEN [da.entries[i] EXCEPT !.to = Shift(@, dy)]
                                         ELSE da.entries[i]]]
  /\ UNCHANGED <<baseVars, fm, rp, uc, sel, md, an, lo>>

InitDraw == InitIn(EnvFetch)

NextDraw ==
  \/ RenderAnchors
  \/ DrawPass
  \/ ScrollPage

SpecDraw == InitDraw /\ [][NextDraw]_vars

\* Chips and preview: a files view with its diff, one reference, navigations
\* that keep the document or replace its body, frames and the pointer.  The
\* awaited answers arrive and the frames run (weak fairness); navigations and
\* pointer moves are the user's.
EnvChips ==
  [inits |-> MaxInits, locs |-> {[pr |-> "X", files |-> TRUE]},
   containers |-> {TRUE}, sidebars |-> {"absent"}, modes |-> {"keep", "body"},
   urls |-> [c \in Convs |-> IF c = "X" THEN {[owner |-> "X", kind |-> "gm", ver |-> 1]} ELSE {}],
   proxies |-> [c \in Convs |-> {}]]

InitChips == InitIn(EnvChips)

NextChips ==
  \/ Load(EnvChips)
  \/ Navigate(EnvChips)
  \/ \E r \in DOMAIN runs : ProxyFetchDone(EnvChips, r)
  \/ \E r \in DOMAIN runs : ConvFetchDone(EnvChips, r)
  \/ \E r \in DOMAIN runs : FetchMappingDone(EnvChips, r)
  \/ Frame
  \/ PointerEnter
  \/ PointerLeave

SpecChips ==
  /\ InitChips
  /\ [][NextChips]_vars
  /\ WF_vars(Load(EnvChips))
  /\ WF_vars(Frame)
  /\ \A r \in 1..MaxInits :
       /\ WF_vars(r \in DOMAIN runs /\ ProxyFetchDone(EnvChips, r))
       /\ WF_vars(r \in DOMAIN runs /\ ConvFetchDone(EnvChips, r))
       /\ WF_vars(r \in DOMAIN runs /\ FetchMappingDone(EnvChips, r))

\* the lookups of one anchor in the document of the moment
AnchorQuery ==
  /\ lo.pc = "idle"
  /\ \E doc \in LineDocs, line \in Lines :
       lo' = [lo EXCEPT !.pc = "query", !.doc = doc, !.file_path = FilePath, !.line = line]
  /\ UNCHANGED <<baseVars, fm, rp, uc, sel, da, md, an>>

FileQuery ==
  /\ lo.pc = "idle"
  /\ \E doc \in FileDocs, filePath \in {<<>>, FilePath} :
       lo' = [lo EXCEPT !.pc = "file", !.doc = doc, !.file_path = filePath]
  /\ UNCHANGED <<baseVars, fm, rp, uc, sel, da, md, an>>

\* drawArrows and renderHunkChips look the line up
FindLineElementCall ==
  /\ lo.pc = "query"
  /\ lo' = [lo EXCEPT !.pc = "line",
                      !.lineEl = findLineElement(lo.doc, lo.file_path, lo.line)]
  /\ UNCHANGED <<baseVars, fm, rp, uc, sel, da, md, an>>

\* a click on the list item
ScrollToEditCall ==
  /\ lo.pc = "query"
  /\ lo' = [lo EXCEPT !.pc = "scrolled",
                      !.target = scrollToEdit(lo.doc, lo.file_path, lo.line)]
  /\ UNCHANGED <<baseVars, fm, rp, uc, sel, da, md, an>>

FindFileContainerCall ==
  /\ lo.pc = "file"
  /\ lo' = [lo EXCEPT !.pc = "container",
                      !.target = findFileContainer(lo.doc, lo.file_path)]
  /\ UNCHANGED <<baseVars, fm, rp, uc, sel, da, md, an>>

InitLocate == InitIn(EnvFetch)

NextLocate ==
  \/ AnchorQuery
  \/ FileQuery
  \/ FindLineElementCall
  \/ ScrollToEditCall
  \/ FindFileContainerCall

SpecLocate == InitLocate /\ [][NextLocate]_vars

\* one call of renderPanel, followed to the rows it builds
MappingArrives ==
  /\ an.pc = "idle"
  /\ \E mapping \in AnchorMappings : an' = [an EXCEPT !.pc = "mapping", !.mapping = mapping]
  /\ UNCHANGED <<baseVars, fm, rp, uc, sel, da, md, lo>>

BuildRows ==
  /\ an.pc = "mapping"
  /\ an' = [an EXCEPT !.pc = "rows", !.rows = Rows(an.mapping),
                      !.messagesByHunk = MessagesByHunk(an.mapping)]
  /\ UNCHANGED <<baseVars, fm, rp, uc, sel, da, md, lo>>

InitAnchors == InitIn(EnvFetch)

NextAnchors ==
  \/ MappingArrives
  \/ BuildRows

SpecAnchors == InitAnchors /\ [][NextAnchors]_vars

\* one call of parseMarkdownTranscript on the text of a shared transcript
TranscriptArrives ==
  /\ md.pc = "idle"
  /\ \E ls \in Transcripts : md' = [md EXCEPT !.pc = "text", !.lines = ls]
  /\ UNCHANGED <<baseVars, fm, rp, uc, sel, da, an, lo>>

ParseTranscript ==
  /\ md.pc = "text"
  /\ md' = [md EXCEPT !.pc = "parsed", !.messages = parseMarkdownTranscript(md.lines)]
  /\ UNCHANGED <<baseVars, fm, rp, uc, sel, da, an, lo>>

InitMarkdown == InitIn(EnvFetch)

NextMarkdown ==
  \/ TranscriptArrives
  \/ ParseTranscript

SpecMarkdown == InitMarkdown /\ [][NextMarkdown]_vars

InitRender == InitIn(EnvFetch)

NextRender ==
  \/ RenderPanelCall
  \/ RenderPanelRows

SpecRender == InitRender /\ [][NextRender]_vars

\* ------------------------------------------------------------------ claims
Events(fn, ev) ==
  {lastResolve[i] : i \in {j \in DOMAIN lastResolve :
                             lastResolve[j].fn = fn /\ lastResolve[j].ev = ev}}

CacheOps == Range(cacheLog)

AllRuns == Range(runs) \cup Range(ended)

\* C1: when retrieval of the mapping fails during an init run, the cache
\* entry of the current conversation identity is absent at the moment the
\* retry's resolveMappingUrl call starts.
C1_RetryStartsWithEntryAbsent ==
  \A e \in Events("mapping", "start") : e.retry => e.entry = NoUrl

\* C1 witness: a retry's resolution starts after the catch handler removed an
\* entry that was there.
C1_Witness ==
  /\ \E e \in Events("mapping", "start") : e.retry
  /\ \E o \in CacheOps : o.op = "remove" /\ o.why = "retrievalFailed" /\ o.val # NoUrl

\* C2 (as claimed): per init run fetchMapping is attempted at most twice; a
\* run whose first attempt failed has re-resolved exactly once; a run that
\* ends in failure after an attempt has rendered the error in the panel.
C2_RetryOnceThenInlineError ==
  /\ \A x \in AllRuns :
       /\ x.attempts <= 2
       /\ x.reresolves = (IF x.failures >= 1 THEN 1 ELSE 0)
  /\ \A x \in Range(ended) :
       (x.failures >= 1 /\ x.pc # "rendered") =>
         /\ x.pc = "error"
         /\ panelEl # 0
         /\ body[panelEl].kind = "error"

\* The priority order of resolveMappingUrl over what one call read.
Priority(view, fetched, cached) ==
  IF isLikelyMappingUrl(view) THEN view
  ELSE IF isLikelyMappingUrl(fetched) THEN fetched
  ELSE IF isLikelyMappingUrl(cached) THEN cached
  ELSE NoUrl

\* C3: resolveMappingUrl returns the view's reference when it is likely
\* valid, else the re-derived one when it is likely valid, else the validated
\* cached one, else null; a returned view or re-derived reference is the
\* cache entry afterwards; the Conversation Fetcher is consulted exactly when
\* the view gave no valid reference.
C3_ResolutionPriority ==
  \A e \in Events("mapping", "return") :
    /\ e.ret = Priority(e.view, e.fetched, e.cached)
    /\ (isLikelyMappingUrl(e.view) \/ isLikelyMappingUrl(e.fetched)) => e.entry = e.ret
    /\ e.consulted <=> ~isLikelyMappingUrl(e.view)

\* C3 witness: a valid cached value and a different valid re-derived value
\* are both at hand, and the re-derived one is returned.
C3_Witness ==
  \E e \in Events("mapping", "return") :
    /\ isLikelyMappingUrl(e.cached)
    /\ isLikelyMappingUrl(e.fetched)
    /\ e.cached # e.fetched
    /\ e.ret = e.fetched

\* C4: a proxy resolution that finds no proxy reference in the current view
\* consults the Conversation Fetcher and returns the re-derived value when
\* there is one, the cached value only when there is none.
C4_RederivedProxyBeforeCached ==
  \A e \in Events("proxy", "return") :
    e.view = NoUrl =>
      /\ e.consulted
      /\ e.ret = (IF e.fetched # NoUrl THEN e.fetched ELSE e.cached)

\* C5: the document holds at most one panel element and at most one layout
\* wrapper.
PanelsInDocument ==
  {n \in UNION {Range(layouts[i]) : i \in DOMAIN layouts} : n[1] = "panel"}

C5_OnePanelOneLayout ==
  /\ Cardinality(PanelsInDocument) <= 1
  /\ Len(layouts) <= 1

\* C6: directly after an attachPanel call that returned true, a second call
\* with the same panel returns true and leaves the document as it is, with
\* exactly one layout wrapper in which the panel occurs exactly once.
Occurrences(seq, n) == Cardinality({i \in DOMAIN seq : seq[i] = n})

C6_SecondAttachChangesNothing ==
  (lastAttach # <<>> /\ lastAttach[Len(lastAttach)].res = "ok") =>
    LET p == lastAttach[Len(lastAttach)].panel
        a == attachPanel(Cur, p)
    IN  /\ a.res = "ok"
        /\ a.layouts = layouts
        /\ Len(layouts) = 1
        /\ Occurrences(layouts[1], PanelNode(p)) = 1

\* The last attachPanel call of the step succeeded through the two-pane
\* branch: the layout holds the panel, the sidebar and the primary region.
C6_Witness ==
  /\ lastAttach # <<>>
  /\ lastAttach[Len(lastAttach)].res = "ok"
  /\ lastAttach[Len(lastAttach)].branch = "twoPane"
  /\ InFirst(layouts, SidebarNode)
  /\ InFirst(layouts, DiffNode)

\* C7: the panel is never attached while the MutationObserver registered by
\* waitForFilesContainer has not been disconnected.
C7_NoSubscriptionWhileAttached ==
  ~(/\ panelEl # 0
    /\ InDocument(layouts, PanelNode(panelEl))
    /\ attachObserver # 0)

\* C8: a rendering frame runs at most one drawArrows pass.
C8_OnePassPerFrame == framePasses <= 1

\* C9 (as claimed): the entry keyed by a conversation is written only with a
\* reference of that conversation's view or thread, and is removed only
\* (when it holds a value) only because that value failed validation or
\* because retrieval of a reference resolved for that conversation failed.
C9_CacheIsolation ==
  \A o \in CacheOps :
    /\ o.op = "set" => o.val.owner = o.key
    /\ (o.op = "remove" /\ o.val # NoUrl) => (o.why = "invalid" \/ o.ref.owner = o.key)

\* C10 (as claimed): a run that has issued a network request has made its
\* attach attempt before, and while a run is suspended the body of the panel
\* (if the panel has not been cleared meanwhile) shows the loading state.
C10_AttachFirstThenLoading ==
  \A x \in Range(runs) :
    /\ x.requested => x.tried
    /\ panelEl # 0 => body[panelEl].kind = "loading"

\* C11: while the observer registered after a failed attach is connected to
\* the document's body, every step of the page (a navigation, which invokes
\* init, or a mutation, which leaves the runs as they are) makes an attach
\* attempt; in
\* the step in which the primary region appears on a files view the panel is
\* attached; and a step whose attach attempt fails writes nothing into a
\* panel body (a panel built in that step shows the loading state).
LastAttach(la) == la[Len(la)]

C11_StepRetriesUntilAttached ==
  /\ (attachObserver # 0 /\ obsLive /\ obsLive' /\ (runs' = runs \/ inits' # inits)) =>
       lastAttach' # <<>>
  /\ (attachObserver # 0 /\ obsLive /\ ~container /\ container' /\ loc'.files) =>
       /\ panelEl' # 0
       /\ InDocument(layouts', PanelNode(panelEl'))
  /\ (lastAttach' # <<>> /\ LastAttach(lastAttach').res = "fail") =>
       \A q \in DOMAIN body' : body'[q] = (IF q \in DOMAIN body THEN body[q] ELSE Loading)

C11_RetriedUntilAttached == [][C11_StepRetriesUntilAttached]_vars

\* The observer's callback has attached the panel after at least one failed
\* attempt of an earlier step: no init ran in this step.
C11_Witness ==
  /\ inits >= 1
  /\ loc.files
  /\ panelEl # 0
  /\ attachObserver = 0
  /\ Len(lastAttach) = 1
  /\ lastAttach[1].res = "ok"
  /\ lastAttach[1].panel = panelEl
  /\ ended = <<>>

\* C12: a first resolution that returns null (nothing likely-valid in the
\* view, the cache or the thread) ends the run in the empty state: the run
\* has called fetchMapping never, and the panel shows the empty message.
C12_NoReferenceEndsEmpty ==
  \A e \in Events("mapping", "return") :
    (~e.retry /\ e.ret = NoUrl) =>
      /\ \A x \in Range(ended) : x.pc = "empty" /\ x.attempts = 0
      /\ panelEl # 0
      /\ body[panelEl].kind = "empty"

\* C13: no request of a fetchMapping call carries the fragment, neither in
\* the URL requested nor in the url parameter of the proxy endpoint, and the
\* requests stay the same when another key stands in the reference.
C13_KeyNeverRequested ==
  \A i \in DOMAIN fm.reqs :
    /\ fm.reqs[i].url.url.hash = NoKey
    /\ fm.ref.hash # NoKey =>
         \A k2 \in KeyTexts :
           fm.reqs[i].url = FetchTarget([fm.ref EXCEPT !.hash = k2], proxyBase)

\* A keyed reference on the gist host went to the proxy endpoint and then to
\* the background script.
C13_Witness ==
  /\ Len(fm.reqs) = 2
  /\ fm.ref.hash # NoKey
  /\ fm.ref.host = GistHost
  /\ fm.reqs[1].url.proxy = proxyBase
  /\ fm.reqs[2].chan = "indirect"

\* C14: the background script is asked at most once, for the URL of the
\* direct request and only after that request threw; a direct response of
\* non-ok status fails the retrieval without it; an error, a lastError or a
\* missing response of the background script fails the retrieval.
C14_IndirectOnlyAfterThrow ==
  /\ Len(fm.reqs) <= 2
  /\ \A i \in DOMAIN fm.reqs :
       /\ fm.reqs[i].chan = (IF i = 1 THEN "direct" ELSE "indirect")
       /\ fm.reqs[i].url = fm.target
  /\ Len(fm.reqs) = 2 => fm.direct = "threw"
  /\ fm.direct = "notOk" => (fm.pc = "done" /\ fm.result = "HttpError")
  /\ fm.indirect \in {"lastError", "NoResponse", "ResponseError"} =>
       (fm.pc = "done" /\ fm.result = fm.indirect)

C14_Witness ==
  /\ Len(fm.reqs) = 2
  /\ fm.direct = "threw"
  /\ fm.indirect = "ok"
  /\ fm.result \in Mappings

\* C15: with a key in the reference and a response of ok status, a key
\* that decodes to another length than 32 bytes fails with InvalidKey
\* whatever the payload, a payload shorter than 12 bytes fails with
\* InvalidBlob, and a payload of 12 bytes or more never does.
C15_KeyThenBlobLength ==
  (fm.pc = "done" /\ fm.resource.ok /\ fm.key # NoKey /\ fm.result # "HttpError") =>
    LET keyBytes == base64UrlDecode(fm.key)
        size == Len(fm.resource.buffer)
    IN  /\ (keyBytes # -1 /\ keyBytes # KEY_BYTES) => fm.result = "InvalidKey"
        /\ (keyBytes = KEY_BYTES /\ size < NONCE_BYTES) => fm.result = "InvalidBlob"
        /\ size >= NONCE_BYTES => fm.result # "InvalidBlob"

\* The text of a keyless retrieval that got a response of ok status.
KeylessText == Decode(fm.resource.buffer)
KeylessDone == fm.pc = "done" /\ fm.key = NoKey /\ fm.resource.ok

\* C16 as stated: text whose first character is '<' fails with
\* UnexpectedContentType, and every other text is handed to JSON.parse (the
\* result is the Mapping or the SyntaxError of JSON.parse).
C16_LeadingMarkupOnly ==
  KeylessDone =>
    IF Len(KeylessText) >= 1 /\ KeylessText[1] = "<"
      THEN fm.result = "UnexpectedContentType"
      ELSE fm.result = JsonParse(KeylessText)

\* C16 amended: text whose first character after leading white space is '<'
\* fails with UnexpectedContentType, and every other text is handed to
\* JSON.parse.
C16_MarkupAfterWhiteSpace ==
  KeylessDone =>
    LET seen == SelectSeq(KeylessText, LAMBDA c : c # " ")
    IN  IF Len(seen) >= 1 /\ seen[1] = "<"
          THEN fm.result = "UnexpectedContentType"
          ELSE fm.result = JsonParse(KeylessText)

\* A text with white space before its '<' was rejected as markup.
C16_Witness ==
  /\ KeylessDone
  /\ Len(KeylessText) >= 2
  /\ KeylessText[1] = " "
  /\ KeylessText[2] = "<"
  /\ fm.result = "UnexpectedContentType"

\* C17: when the fragment is the unpadded base64url text of a 32-byte key
\* and the body retrieved is a nonce followed by the AES-256-GCM encryption,
\* under that key and nonce, of gzip(JSON.stringify(m)), fetchMapping
\* resolves with m.
C17_RoundTrip ==
  \A k \in {1, 2}, a \in {1, 2}, m \in Mappings :
    (/\ fm.pc = "done"
     /\ fm.resource.ok
     /\ fm.ref.hash = [n |-> 43, eq |-> 0, id |-> k]
     /\ fm.resource.buffer = Payload(k, a, m)) => fm.result = m

C17_Witness ==
  /\ fm.pc = "done"
  /\ fm.resource.ok
  /\ fm.ref.hash = [n |-> 43, eq |-> 0, id |-> 2]
  /\ fm.ref.path[1] = "v"
  /\ fm.resource.buffer = Payload(2, 1, "2")
  /\ fm.result = "2"

\* C18: the rows rendered are the messages, each once; a message without
\* timestamp comes before every message with one; messages without
\* timestamp keep their encounter order; messages with timestamps are in
\* the order of their timestamps, equal ones in encounter order.
Encounter(id) == IndexById(MessagesById(rp.input), id)

C18_RenderOrder ==
  rp.pc = "rendered" =>
    /\ Len(rp.rows) = Len(MessagesById(rp.input))
    /\ Range(rp.rows) = Range(MessagesById(rp.input))
    /\ \A i, j \in DOMAIN rp.rows :
         i < j =>
           LET a == rp.rows[i]
               b == rp.rows[j]
           IN  IF a.ts = 0 \/ b.ts = 0
                 THEN a.ts = 0 /\ (b.ts = 0 => Encounter(a.id) < Encounter(b.id))
                 ELSE \/ a.ts < b.ts
                      \/ a.ts = b.ts /\ Encounter(a.id) < Encounter(b.id)

\* The scenario of the claim: [1 without, 2 with, 3 without] renders as [1, 3, 2].
C18_Witness ==
  /\ rp.pc = "rendered"
  /\ rp.input = <<[id |-> 1, ts |-> 0], [id |-> 2, ts |-> 1], [id |-> 3, ts |-> 0]>>
  /\ [i \in DOMAIN rp.rows |-> rp.rows[i].id] = <<1, 3, 2>>

\* Whether new URL(raw) parses the whole input: characters before the URL
\* text make it throw, the characters behind it are legal in a path.
InputParses == uc.pre = <<>> /\ uc.core.ok
LegacyOnly(path) == HasSegment(path, "g") /\ ~HasSegment(path, "gm")

C20_Idempotent ==
  uc.pc = "again" => uc.again = uc.out

C20_Witness ==
  /\ uc.pc = "again"
  /\ uc.core.hash # NoKey
  /\ uc.core.path = <<"v", "g", "x">>
  /\ uc.out.path = <<"blob", "g", "x">>
  /\ uc.again = uc.out

\* the first candidate of the highest score
FirstHighest(candidates) ==
  LET top == {i \in DOMAIN candidates :
                \A j \in DOMAIN candidates : Score(candidates[j]) <= Score(candidates[i])}
  IN  candidates[CHOOSE i \in top : \A j \in top : i <= j]

\* C21: the call returns the candidate of the highest score among all
\* candidates collected from the marker-bearing regions, the first found
\* among those of equal score.
C21_HighestScoreFirstFound ==
  sel.pc = "done" /\ sel.candidates # <<>> => sel.out = FirstHighest(sel.candidates)

\* what tells two candidates apart besides the canonical path and the suffix
OtherFeatures(h) ==
  [marker |-> \E m \in MarkerSegs : AnySegment(h.path, m),
   host |-> h.host,
   blob |-> HasSegment(h.path, "blob"),
   v |-> HasSegment(h.path, "v"),
   g |-> HasSegment(h.path, "g")]
IsJson(h) == h.path # <<>> /\ h.path[Len(h.path)] \in JsonSegs
CanonicalAgainstJson(a, b) ==
  /\ HasSegment(a.path, "gm") /\ ~IsJson(a)
  /\ ~HasSegment(b.path, "gm") /\ IsJson(b)
  /\ OtherFeatures(a) = OtherFeatures(b)

FullyOutside(r) ==
  \/ r.bottom < 0 \/ r.top > INNER_HEIGHT
  \/ r.right < 0 \/ r.left > INNER_WIDTH
AboveOrBelow(r) == r.bottom < 0 \/ r.top > INNER_HEIGHT
Drawn(i) == \E k \in DOMAIN da.svg : da.svg[k].entry = i

\* C23 as stated: after a pass no connector is drawn for an entry one of
\* whose rectangles is fully outside the viewport.
C23_NoConnectorOutsideViewport ==
  da.pc = "drawn" =>
    \A i \in DOMAIN da.entries :
      da.entries[i].located
        /\ (FullyOutside(da.entries[i].from) \/ FullyOutside(da.entries[i].to))
        => ~Drawn(i)

\* C23 amended: after a pass no connector is drawn for an entry one of whose
\* rectangles is fully above or fully below the viewport; an entry whose
\* list item's bottom is negative has none.
C23_NoConnectorAboveOrBelow ==
  da.pc = "drawn" =>
    \A i \in DOMAIN da.entries :
      da.entries[i].located
        /\ (AboveOrBelow(da.entries[i].from) \/ AboveOrBelow(da.entries[i].to))
        => ~Drawn(i)

C23_Witness ==
  /\ da.pc = "drawn"
  /\ Len(da.entries) = 2
  /\ da.entries[1].located /\ da.entries[1].from.bottom < 0
  /\ ~AboveOrBelow(da.entries[1].to)
  /\ ~Drawn(1)
  /\ Drawn(2)

\* the entries that get a connector: anchor located, neither rectangle
\* culled
Visible(r) == ~AboveOrBelow(r)
Connected ==
  {i \in DOMAIN da.entries :
     /\ da.entries[i].located
     /\ Visible(da.entries[i].from)
     /\ Visible(da.entries[i].to)}
ShapesOf(i, kind) == {k \in DOMAIN da.svg : da.svg[k].entry = i /\ da.svg[k].kind = kind}

PanelAttached == panelEl # 0 /\ InDocument(layouts, PanelNode(panelEl))
PreviewVisible == chips.previewIn /\ chips.shown
RenderedNow == \E i \in DOMAIN ended : ended[i].pc = "rendered"
EnterStep == chips.pointer = "away" /\ chips'.pointer = "over"
LeaveStep ==
  chips.pointer = "over" /\ chips'.pointer = "away" /\ raf' = raf /\ inits' = inits

\* C25: once the reference of the view has been resolved and retrieved on a
\* files view whose hunk line can be located, the panel is attached and the
\* chip is attached at some later moment; every pointer-enter on the chip
\* leaves the preview visible and every pointer-leave leaves it hidden.
C25_ChipAndPreview ==
  /\ RenderedNow ~> (PanelAttached /\ chips.chip)
  /\ [][(EnterStep => PreviewVisible') /\ (LeaveStep => ~PreviewVisible')]_vars

\* the header lines of a text, in order, and the complete text of the block
\* of header line i: from the line after the empty line that follows the
\* header up to the next header, separator or footer (or the end)
RECURSIVE HeadersFrom(_, _)
HeadersFrom(lines, k) ==
  IF k > Len(lines) THEN <<>>
  ELSE (IF lines[k] = "h" THEN <<k>> ELSE <<>>) \o HeadersFrom(lines, k + 1)
BlockText(lines, i) ==
  LET j == NextTerminator(lines, i)
      last == IF j = 0 THEN Len(lines) ELSE j - 1
  IN  Trim(SubSeq(lines, i + 1, last))

\* C26: the messages are one per header line, in order, and the content of
\* each is the complete text of its block.
C26_OneMessagePerBlock ==
  md.pc = "parsed" =>
    LET hs == HeadersFrom(md.lines, 1) IN
    /\ Len(md.messages) = Len(hs)
    /\ \A n \in DOMAIN hs :
         /\ md.messages[n].header = hs[n]
         /\ md.messages[n].content = BlockText(md.lines, hs[n])

\* a reference of one of the whitelisted shapes
Whitelisted(u) == u # NoUrl /\ u.kind = "gm"
Invalid(u) == u # NoUrl /\ ~Whitelisted(u)

\* C27: every value written to the mapping cache is of a whitelisted shape;
\* no resolution returns a value that is not; a resolution that reads a view
\* or thread reference of another shape neither caches nor returns it; and
\* a cached value of another shape is gone from the cache once the
\* resolution that met it has run, and is never returned.
C27_OnlyValidCachedOrReturned ==
  /\ \A o \in CacheOps : o.op = "set" => Whitelisted(o.val)
  /\ \A e \in Events("mapping", "return") :
       /\ e.ret # NoUrl => Whitelisted(e.ret)
       /\ Invalid(e.view) => e.ret # e.view /\ e.entry # e.view
       /\ Invalid(e.fetched) => e.ret # e.fetched /\ e.entry # e.fetched
       /\ Invalid(e.cached) => e.ret # e.cached /\ e.entry # e.cached
  /\ \A e \in Events("mapping", "start") :
       Invalid(e.entry) => mapCache[e.key] # e.entry

C27_Witness ==
  /\ \E e \in Events("mapping", "start") : Invalid(e.entry) /\ Invalid(e.view)
  /\ \E o \in CacheOps : o.op = "remove" /\ o.why = "invalid"

\* the run that takes the step: the first whose record changes or leaves
Differs(q) == q > Len(runs') \/ runs'[q] # runs[q]
Acting(r) == r \in DOMAIN runs /\ Differs(r) /\ \A q \in 1..(r - 1) : ~Differs(q)

\* C28: when a resolution that found no reference in the view and read a
\* validated cached reference gets the Conversation Fetcher's answer, it
\* returns: the re-derived reference if the answer holds a valid one, the
\* cached reference otherwise, a failed request included.
C28_StepReturnsCached ==
  \A r \in DOMAIN runs :
    /\ Acting(r)
    /\ runs[r].pc \in {"convFetch1", "convFetch2"}
    /\ runs[r].domUrl = NoUrl
    /\ Whitelisted(runs[r].cached)
    => \E i \in DOMAIN lastResolve' :
         /\ lastResolve'[i].fn = "mapping" /\ lastResolve'[i].ev = "return"
         /\ lastResolve'[i].ret = IF Whitelisted(lastResolve'[i].fetched)
                                    THEN lastResolve'[i].fetched ELSE runs[r].cached
C28_CachedWhenFetcherFails == [][C28_StepReturnsCached]_vars

\* the first segment of a path of several segments, as C29 has it rewritten
Leading(seg, keyed) ==
  IF seg = "v" /\ keyed THEN "blob" ELSE IF seg = "g" THEN "gm" ELSE seg

\* C29: normalize changes nothing but the leading path segment: /v/ becomes
\* /blob/ exactly when the URL has a key fragment, /g/ becomes /gm/ with or
\* without one; host, rest of the path and fragment stay.
C29_OnlyLeadingPrefixRewritten ==
  uc.fn = "normalize" =>
    /\ uc.out.host = uc.core.host
    /\ uc.out.hash = uc.core.hash
    /\ Len(uc.out.path) = Len(uc.core.path)
    /\ \A i \in 2..Len(uc.core.path) : uc.out.path[i] = uc.core.path[i]
    /\ uc.out.path[1] = IF Len(uc.core.path) >= 2
                          THEN Leading(uc.core.path[1], uc.core.hash # NoKey)
                          ELSE uc.core.path[1]

C29_Witness ==
  /\ uc.fn = "normalize"
  /\ uc.core.hash = NoKey
  /\ uc.core.path = <<"v", "g", "x">>
  /\ uc.out = uc.core

\* C30: the anchors of a row are, edit by edit in the order of the row's
\* edits: for an edit without link entries the single anchor
\* (edit.file_path, edit.start_line); for an edit with link entries one
\* anchor per linked hunk id, at (hunk.file_path, hunk.new_start), in link
\* order, and never the edit's own line.
At(file_path, line, edit) == [file_path |-> file_path, line |-> line, edit |-> edit]

Placed(anchors) ==
  [i \in DOMAIN anchors |-> At(anchors[i].file_path, anchors[i].line, anchors[i].edit)]

LinkedHunk(hunks, id) == IF HasHunk(hunks, id) THEN HunksById(hunks, id) ELSE NoHunk

ClaimedFor(mapping, edit) ==
  LET hunkIds == HunkIdsByEdit(mapping.edit_hunks, edit.id)
  IN  IF Len(hunkIds) = 0
      THEN <<At(edit.file_path, edit.start_line, edit)>>
      ELSE [i \in DOMAIN hunkIds |->
              At(LinkedHunk(mapping.hunks, hunkIds[i]).file_path,
                 LinkedHunk(mapping.hunks, hunkIds[i]).new_start, edit)]

RECURSIVE ClaimedFrom(_, _, _)
ClaimedFrom(mapping, edits, i) ==
  IF i > Len(edits) THEN <<>>
  ELSE ClaimedFor(mapping, edits[i]) \o ClaimedFrom(mapping, edits, i + 1)

C30_AnchorsPerEdit ==
  an.pc = "rows" =>
    \A r \in DOMAIN an.rows :
      Placed(an.rows[r].anchors) = ClaimedFrom(an.mapping, an.rows[r].edits, 1)

\* C30 as the code has it: an edit without link entries has its single
\* anchor only when its start_line is present and not 0, and otherwise none;
\* an edit with link entries has one anchor per link whose hunk id is in
\* hunksById, in link order, and none for a link to a missing hunk; the
\* edit's own line is not used then, even when no link leads to a hunk.
ResolvedFor(mapping, edit) ==
  LET hunkIds  == HunkIdsByEdit(mapping.edit_hunks, edit.id)
      resolved == Pick(hunkIds, {id \in Range(hunkIds) : HasHunk(mapping.hunks, id)}, 1)
  IN  IF Len(hunkIds) = 0
      THEN IF edit.start_line = 0 THEN <<>>
           ELSE <<At(edit.file_path, edit.start_line, edit)>>
      ELSE [i \in DOMAIN resolved |->
              At(HunksById(mapping.hunks, resolved[i]).file_path,
                 HunksById(mapping.hunks, resolved[i]).new_start, edit)]

RECURSIVE ResolvedFrom(_, _, _)
ResolvedFrom(mapping, edits, i) ==
  IF i > Len(edits) THEN <<>>
  ELSE ResolvedFor(mapping, edits[i]) \o ResolvedFrom(mapping, edits, i + 1)

C30_AnchorsPerResolvedLink ==
  an.pc = "rows" =>
    \A r \in DOMAIN an.rows :
      Placed(an.rows[r].anchors) = ResolvedFrom(an.mapping, an.rows[r].edits, 1)

\* an edit without line and links beside an edit with a dangling link and a
\* link to a hunk: the row has the one anchor of that hunk
C30_Witness ==
  /\ an.pc = "rows"
  /\ an.mapping.edits =
       <<[id |-> 1, file_path |-> "a", start_line |-> 0, user_message_id |-> 0, message_id |-> 1],
         [id |-> 2, file_path |-> "a", start_line |-> 1, user_message_id |-> 0, message_id |-> 1]>>
  /\ an.mapping.hunks = <<[id |-> 1, file_path |-> "b", new_start |-> 2]>>
  /\ an.mapping.edit_hunks = <<[edit_id |-> 2, hunk_id |-> 2], [edit_id |-> 2, hunk_id |-> 1]>>
  /\ Placed(an.rows[1].anchors) = <<At("b", 2, an.mapping.edits[2])>>
  /\ an.rows[2].anchors = <<>>

\* C31: the lookup of a line returns the first element of the first strategy
\* that matches, in this order: line marker inside the container of
\* file_path; anchor identifier ending in the line inside that container;
\* line marker anywhere in the document; anchor identifier ending in the
\* line anywhere in the document.  A match inside the container wins over
\* any match elsewhere, also over an earlier one.
Located == IF lo.pc = "line" THEN lo.lineEl ELSE lo.target

Scoped ==
  LET fileEl == findFileContainer(lo.doc, lo.file_path)
  IN  IF fileEl = 0 THEN {} ELSE {i \in DOMAIN lo.doc : lo.doc[i].inside = fileEl}

Markers == {i \in DOMAIN lo.doc : lo.line # 0 /\ lo.doc[i].number = lo.line}

AnchorsEnding ==
  {i \in DOMAIN lo.doc :
     lo.line # 0 /\ EndsWith(lo.doc[i].anchor, <<"R">> \o Decimal(lo.line))}

Strategies ==
  <<Scoped \cap Markers, Scoped \cap AnchorsEnding, Markers, AnchorsEnding>>

Earliest(among) == CHOOSE i \in among : \A j \in among : i <= j

C31_FirstMatchingStrategy ==
  lo.pc \in {"line", "scrolled"} =>
    /\ \A k \in DOMAIN Strategies :
         (Strategies[k] # {} /\ \A h \in 1..(k - 1) : Strategies[h] = {})
           => Located = Earliest(Strategies[k])
    /\ Scoped \cap (Markers \cup AnchorsEnding) # {} => Located \in Scoped

\* a line marker of the line outside the container comes first in the
\* document; the anchor inside the container is the one returned
C31_Witness ==
  /\ lo.pc = "line"
  /\ lo.line = 1
  /\ Len(lo.doc) = 3
  /\ lo.doc[1].number = 1 /\ lo.doc[1].inside = 0
  /\ lo.doc[2].path = lo.file_path
  /\ lo.doc[3].anchor = <<"R", "1">> /\ lo.doc[3].number = 0 /\ lo.doc[3].inside = 2
  /\ lo.lineEl = 3

\* C32: when no line-level strategy matches but the container of the file
\* exists, the lookup gives the container itself; it gives nothing only when
\* the container does not exist either.
AnchorsNaming ==
  {i \in DOMAIN lo.doc :
     /\ lo.line # 0
     /\ lo.doc[i].anchor # <<>>
     /\ MatchR(lo.doc[i].anchor) = Decimal(lo.line)}

NoLineMatch == Markers \cup AnchorsEnding \cup AnchorsNaming = {}

Container == findFileContainer(lo.doc, lo.file_path)

C32_CoarseFallback ==
  lo.pc \in {"line", "scrolled"} =>
    /\ (NoLineMatch /\ Container # 0) => Located = Container
    /\ Located = 0 => (NoLineMatch /\ Container = 0)

\* C32 as the code has it: the container is the fallback of scrollToEdit
\* only, and only for a line that is present and not 0; findLineElement,
\* which drawArrows and renderHunkChips call, gives nothing when no
\* line-level strategy matches, whether the container exists or not.
C32_CoarseFallbackOnScroll ==
  /\ (lo.pc = "scrolled" /\ lo.line # 0) =>
       /\ NoLineMatch => lo.target = Container
       /\ lo.target = 0 <=> (NoLineMatch /\ Container = 0)
  /\ (lo.pc = "scrolled" /\ lo.line = 0) => lo.target = 0
  /\ lo.pc = "line" => (lo.lineEl = 0 <=> NoLineMatch)

\* a click for line 1 of a file whose container holds no line: the
\* container is the element scrolled to
C32_Witness ==
  /\ lo.pc = "scrolled"
  /\ lo.line = 1
  /\ Len(lo.doc) = 2
  /\ lo.doc[1].number = 2 /\ lo.doc[1].anchor = <<>>
  /\ lo.doc[2].path = lo.file_path
  /\ lo.target = 2

\* C33: the container lookup gives an element one of whose file-identifying
\* attributes equals file_path when there is one; otherwise the first
\* element with a file-identifying attribute whose value ends with file_path
\* directly after a path separator; a value that ends with the characters of
\* file_path without the separator is not matched; nothing when no element
\* matches.
FileValues(el) == {el.path, el.fpath, el.fname} \ {<<>>}

Equal == {i \in DOMAIN lo.doc : lo.file_path \in FileValues(lo.doc[i])}

OnBoundary ==
  {i \in DOMAIN lo.doc :
     \E value \in FileValues(lo.doc[i]) : EndsWith(value, <<"/">> \o lo.file_path)}

C33_ExactThenSuffixOnBoundary ==
  (lo.pc = "container" /\ lo.file_path # <<>>) =>
    IF Equal # {} THEN lo.target \in Equal
    ELSE IF OnBoundary # {} THEN lo.target = Earliest(OnBoundary)
    ELSE lo.target = 0

\* C34: messagesByHunk of a hunk holds one message per link to that hunk
\* whose hunk, edit and message all exist in the mapping, in link order; a
\* link whose hunk, edit or message is missing adds nothing.  The edit of a
\* link is the first edit of that id, and its message the one it names.
Complete(link) ==
  /\ \E h \in Range(an.mapping.hunks) : h.id = link.hunk_id
  /\ \E e \in Range(an.mapping.edits) : e.id = link.edit_id
  /\ EditKey(FindEdit(an.mapping.edits, link.edit_id)) \in Range(MessageIds)

CompleteLinks(h) ==
  Pick([i \in DOMAIN an.mapping.edit_hunks |-> i],
       {i \in DOMAIN an.mapping.edit_hunks :
          an.mapping.edit_hunks[i].hunk_id = h /\ Complete(an.mapping.edit_hunks[i])}, 1)

C34_OneMessagePerCompleteLink ==
  an.pc = "rows" =>
    \A h \in HunkIds :
      an.messagesByHunk[h] =
        [k \in DOMAIN CompleteLinks(h) |->
           EditKey(FindEdit(an.mapping.edits,
                            an.mapping.edit_hunks[CompleteLinks(h)[k]].edit_id))]

\* two links to hunk 1: the first from an edit whose message is missing, the
\* second from an edit of message 2: the hunk has that one message
C34_Witness ==
  /\ an.pc = "rows"
  /\ an.mapping.edits =
       <<[id |-> 1, file_path |-> "a", start_line |-> 1, user_message_id |-> 0, message_id |-> 3],
         [id |-> 2, file_path |-> "a", start_line |-> 1, user_message_id |-> 2, message_id |-> 1]>>
  /\ an.mapping.hunks = <<[id |-> 1, file_path |-> "b", new_start |-> 2]>>
  /\ an.mapping.edit_hunks = <<[edit_id |-> 1, hunk_id |-> 1], [edit_id |-> 2, hunk_id |-> 1]>>
  /\ an.messagesByHunk[1] = <<2>>
  /\ an.messagesByHunk[2] = <<>>

\* C35: after a successful attach the panel is the first child of the layout
\* wrapper, before the sidebar branch and the primary-region branch, whether
\* the wrapper was built by that attach or was already there.
C35_PanelFirstInLayout ==
  (lastAttach # <<>> /\ LastAttach(lastAttach).res = "ok") =>
    /\ Len(layouts) > 0
    /\ Len(layouts[1]) > 0
    /\ layouts[1][1] = PanelNode(LastAttach(lastAttach).panel)

\* C36: an init run that resumes after an await finds the panel present,
\* also when a later init invocation on a non-files view has cleared it
\* meanwhile: the run ends without dereferencing the null panelEl, so its
\* promise is not rejected unhandled.
C36_ResumedRunFindsPanel ==
  \A x \in Range(ended) :
    x.requested => (x.pc # "unhandled" /\ (x.pc # "cleared" => panelEl # 0))

\* C37: when init runs overlap because of a navigation from one conversation
\* to another, then once every run has ended the panel shows the list of
\* the conversation of the current view, and the anchor entries are those of
\* its mapping: a run of the earlier conversation that completes late does
\* not overwrite them.
C37_LaterRunWins ==
  (runs = <<>> /\ loc.files /\ panelEl # 0 /\ body[panelEl].kind = "list") =>
    /\ body[panelEl].of = loc.pr
    /\ currentAnchors = loc.pr

\* C38: the proxy base in effect when the mapping of a conversation is
\* retrieved is the default base or a proxy reference of that conversation,
\* never one resolved by an earlier init run for another conversation.
C38_ProxyBaseOfTheConversation ==
  \A e \in Events("fetch", "start") :
    e.ret = DEFAULT_PROXY_BASE \/ e.ret.owner = e.key

\* C39: when an init run ends with the inline error after a retrieval that
\* failed, the mapping cache entry of the conversation does not hold the
\* reference whose retrieval failed.
EndsInError(r) ==
  /\ runs[r].pc \in {"fetch1", "fetch2"}
  /\ \E x \in Range(ended') :
       /\ x.pc = "error"
       /\ x.attempts = runs[r].attempts
       /\ x.failures = runs[r].failures + 1

C39_StepLeavesNoFailingEntry ==
  \A r \in DOMAIN runs :
    EndsInError(r) => mapCache'[runs[r].mappingUrl.owner] # runs[r].mappingUrl

C39_FailingReferenceNotCached == [][C39_StepLeavesNoFailingEntry]_vars

\* C40: when the Conversation Fetcher's answer to resolveProxyUrl arrives,
\* whatever it is, a failed request included, the run goes on to resolve
\* the mapping reference of the view it is on (which alone reads the view's
\* reference), with the proxy base left as it was when nothing was resolved.
C40_StepGoesOnToMapping ==
  \A r \in DOMAIN runs :
    (Acting(r) /\ runs[r].pc = "proxyFetch" /\ loc.pr # NoConv /\ panelEl # 0)
      => /\ \E i \in DOMAIN lastResolve' :
              lastResolve'[i].fn = "mapping" /\ lastResolve'[i].ev = "start"
         /\ (\A i \in DOMAIN lastResolve' :
               lastResolve'[i].fn = "proxy" => lastResolve'[i].ret = NoUrl)
              => proxyBase' = proxyBase

C40_ProxyFailureDoesNotStopMapping == [][C40_StepGoesOnToMapping]_vars

====
